---- MODULE Spec2Model ----
(***************************************************************************)
(* Sololom: conversation session (Chat component and full-page script),    *)
(* context window trimming and the persisted conversation collection.      *)
(***************************************************************************)
EXTENDS Integers, Sequences, FiniteSets, TLC

VARIABLES
  ui,                    \* "chat" (components/Chat) or "fullpage" (fullpage.js)
  conversation,          \* the session's in-memory messages
  isProcessing,          \* the in-flight guard of sendMessage
  pc,                    \* where the suspended sendMessage is: idle/keycheck/fetch
  userMessage,           \* sendMessage's local: the trimmed text being sent
  preSend,               \* history: conversation when the pending send was issued
  sentOn,                \* history: currentConversationId when it was issued
  sentTemperature,       \* temperature of the request body of the last accepted send
  request,               \* the messages array handed to the provider call
  outstanding,           \* provider requests issued and not yet settled
  fetched,               \* whether the pending/last send started a fetch()
  saveTriggered,         \* whether the last handler step called its save routine
  lastRendered,          \* last element put in the messages container
  lastEvent,             \* what the last handler step did
  lastOutcome,           \* how the provider call of the last send settled
  chatSettings,          \* the session's chat settings
  globalSettings,        \* the persisted globalSettings document
  maxHistoryItems,       \* chatSettings.maxHistoryItems of the persisted chatSettings
  stored,                \* the persisted conversations document
  conversations,         \* fullpage.js: the window's local copy of the collection
  currentConversationId, \* id of the session's conversation
  clock,                 \* Date.now()
  fpMaxConversations,    \* fullpage.js: maxConversations of the settings it loaded
  inserted,              \* history: the conversations inserted so far
  lastOp,                \* history: the last operation on the collection
  tHistory, tLimit, tOut, tAgain, tPc,  \* trimmer inputs and results
  DEFAULT_GLOBAL_SETTINGS,  \* services/storage.js: the module's defaults object
  persistedChatSettings,    \* the persisted chatSettings document
  settingsEventHandlers,    \* services/settings.js: the callbacks of each channel
  unsubscribed,             \* history: callbacks whose unsubscribe function was called
  calls,                    \* history: the callback invocations of the last operation
  lastCall,                 \* history: the last settings or import operation
  upserts,                  \* the upserts under way: what each read, and the writes landed
  updates,                  \* the settings updates under way: what each read and changes
  delivered                 \* the messages given to onMessage listeners, with their answers

sessionVars == <<ui, conversation, isProcessing, pc, userMessage, preSend, sentOn,
                 sentTemperature, request, outstanding, fetched, saveTriggered, lastRendered, lastEvent,
                 lastOutcome, chatSettings>>
storeRest == <<globalSettings, currentConversationId, clock, fpMaxConversations,
               inserted, lastOp>>
storeVars == <<maxHistoryItems, stored, conversations, storeRest>>
trimVars == <<tHistory, tLimit, tOut, tAgain, tPc>>
settingsVars == <<DEFAULT_GLOBAL_SETTINGS, persistedChatSettings, settingsEventHandlers,
                  unsubscribed, calls, lastCall>>
raceVars == <<upserts, updates>>
messagingVars == <<delivered>>
vars == <<sessionVars, storeVars, trimVars, settingsVars, raceVars, messagingVars>>

----------------------------------------------------------------------------
(* Bounds of the model *)
MaxMsgs == 3        \* a send is only explored while the conversation is shorter
MaxHist == 3        \* longest history given to the trimmer
MaxLimit == 2       \* largest context window limit explored
MaxInserts == 4     \* conversations inserted into the store
MaxCap == 2         \* largest maxConversations explored
MaxOps == 4         \* store operations per behaviour

----------------------------------------------------------------------------
(* Messages and texts *)
Msg(r, c) == [role |-> r, content |-> c]

\* Texts are sequences of characters; " " is white space.
Inputs == { <<>>, <<" ">>, <<"a">>, <<" ", "a">>, <<"b", " ">> }

RECURSIVE DropLeadingSpace(_)
DropLeadingSpace(s) ==
  IF s # <<>> /\ Head(s) = " " THEN DropLeadingSpace(Tail(s)) ELSE s

RECURSIVE DropTrailingSpace(_)
DropTrailingSpace(s) ==
  IF s # <<>> /\ s[Len(s)] = " "
    THEN DropTrailingSpace(SubSeq(s, 1, Len(s) - 1)) ELSE s

\* String.prototype.trim
JsTrim(s) == DropTrailingSpace(DropLeadingSpace(s))

\* Array.prototype.slice(-n) for n > 0
LastN(s, n) == IF Len(s) <= n THEN s ELSE SubSeq(s, Len(s) - n + 1, Len(s))

\* Array.prototype.slice(0, n)
FirstN(s, n) == IF Len(s) <= n THEN s ELSE SubSeq(s, 1, n)

IsSystem(m) == m.role = "system"
NotSystem(m) == m.role # "system"

\* Array.prototype.find(m => m.role === 'system'): <<m>> or <<>>
FindSystem(h) == FirstN(SelectSeq(h, IsSystem), 1)

----------------------------------------------------------------------------
(* Context window trimming: the history part of sendMessage *)
\* a trim that loses the system message
TrimDropsSystem(h, limit) ==
  IF limit > 0 /\ Len(h) > limit
    THEN LastN(SelectSeq(h, NotSystem), limit)
    ELSE h

\* a trim that keeps one message too many
TrimOffByOne(h, limit) ==
  IF limit > 0 /\ Len(h) > limit
    THEN FindSystem(h) \o LastN(SelectSeq(h, NotSystem), limit + 1)
    ELSE h

Trim(h, limit) ==
  IF limit > 0 /\ Len(h) > limit
    THEN FindSystem(h) \o LastN(SelectSeq(h, NotSystem), limit)
    ELSE h

----------------------------------------------------------------------------
(* Trimmer on its own: inputs drawn from bounded sets *)
TrimMsgs == { Msg("system", <<"s">>), Msg("system", <<"t">>), Msg("user", <<"a">>),
              Msg("user", <<"b">>), Msg("assistant", <<"r">>) }

SeqsUpTo(S, n) == UNION { [1..k -> S] : k \in 0..n }

----------------------------------------------------------------------------
(* Providers *)
StartsWith(model, prefix) == model # <<>> /\ model[1] = prefix
Includes(model, word) == \E i \in 1..Len(model) : model[i] = word

\* Model identifiers as sequences of segments
Models == { <<"gpt", "-4">>, <<"claude", "-3-opus">>,
            <<"openrouter/", "llama">>, <<"foo">> }

\* utils/helpers.js getProviderFromModel
getProviderFromModel(model) ==
  IF StartsWith(model, "gpt") THEN "openai"
  ELSE IF StartsWith(model, "claude") THEN "anthropic"
  ELSE IF StartsWith(model, "mistral") THEN "mistral"
  ELSE "unknown"

\* background.js getProviderFromModel
bgGetProviderFromModel(model) ==
  IF StartsWith(model, "gpt") THEN "openai"
  ELSE IF StartsWith(model, "claude") THEN "anthropic"
  ELSE IF StartsWith(model, "mistral") THEN "mistral"
  ELSE IF \/ StartsWith(model, "openrouter/")
          \/ \E w \in {"llama", "gemini", "meta", "cohere", "palm"} : Includes(model, w)
    THEN "openrouter"
  ELSE "unknown"

KeyNames == {"openai", "anthropic", "mistral", "openrouter"}
NoKeys == [p \in KeyNames |-> ""]
AllKeys == [p \in KeyNames |-> "sk"]

\* settings.apiKeys[provider], "" when the entry does not exist
ApiKeyOf(gs, provider) ==
  IF provider \in DOMAIN gs.apiKeys THEN gs.apiKeys[provider] ELSE ""

----------------------------------------------------------------------------
(* Provider responses *)
Reply == <<"r">>
UnknownFormatText == <<"?">>

\* A success body: the arrays `choices` (each element its message.content) and
\* `content` (each element its text), either of which may be absent.
Body(hasCh, ch, hasCo, co) ==
  [hasChoices |-> hasCh, choices |-> ch, hasContent |-> hasCo, content |-> co]

Bodies == { Body(TRUE, <<Reply>>, FALSE, <<>>),    \* OpenAI-style
            Body(FALSE, <<>>, TRUE, <<Reply>>),    \* Anthropic-style
            Body(FALSE, <<>>, FALSE, <<>>),        \* {}
            Body(TRUE, <<>>, TRUE, <<>>) }         \* {choices: [], content: []}

NoBody == Body(FALSE, <<>>, FALSE, <<>>)

Outcome(k, p, b) == [kind |-> k, parseable |-> p, body |-> b]

NoOutcome == Outcome("none", FALSE, NoBody)

Outcomes == { Outcome("transport", FALSE, NoBody),
              Outcome("http", TRUE, NoBody),
              Outcome("http", FALSE, NoBody) }
            \cup { Outcome("ok", TRUE, b) : b \in Bodies }

\* services/api.js extractContentFromResponse
extractContentFromResponse(body, provider) ==
  IF provider \in {"openai", "mistral", "openrouter"}
    THEN IF body.hasChoices /\ body.choices # <<>> THEN body.choices[1] ELSE <<>>
  ELSE IF provider = "anthropic"
    THEN IF body.hasContent /\ body.content # <<>> THEN body.content[1] ELSE <<>>
  ELSE <<>>

----------------------------------------------------------------------------
(* The persisted conversation collection *)
DefaultMaxConversations == 100

Op(name, id) == [op |-> name, id |-> id]
NoOp == Op("none", 0)

Entry(id, ts, msgs) == [id |-> id, timestamp |-> ts, messages |-> msgs]

\* Array.prototype.findIndex(c => c.id === id), 0 when there is none
IndexOfId(convs, id) ==
  IF \E i \in 1..Len(convs) : convs[i].id = id
    THEN CHOOSE i \in 1..Len(convs) :
           convs[i].id = id /\ \A j \in 1..(i - 1) : convs[j].id # id
    ELSE 0

\* globalSettings.maxConversations || 100
MaxConversationsOf(gs) ==
  IF gs.maxConversations = 0 THEN DefaultMaxConversations ELSE gs.maxConversations

\* a save that cuts the list from the other end
saveConversationKeepOldest(convs, conv, gs, now) ==
  LET c == [conv EXCEPT !.id = IF @ = 0 THEN now ELSE @,
                        !.timestamp = IF @ = 0 THEN now ELSE @]
      index == IndexOfId(convs, c.id)
      updated == IF index # 0 THEN [convs EXCEPT ![index] = c] ELSE <<c>> \o convs
  IN  LastN(updated, MaxConversationsOf(gs))

\* services/storage.js saveConversation: the collection it writes.
\* An id or timestamp of 0 stands for a missing one.
saveConversation(convs, conv, gs, now) ==
  LET c == [conv EXCEPT !.id = IF @ = 0 THEN now ELSE @,
                        !.timestamp = IF @ = 0 THEN now ELSE @]
      index == IndexOfId(convs, c.id)
      updated == IF index # 0 THEN [convs EXCEPT ![index] = c] ELSE <<c>> \o convs
  IN  FirstN(updated, MaxConversationsOf(gs))

\* fullpage.js saveChatSettings: the window's local list after the update
fpUpdateLocal(convs, id, msgs, now) ==
  LET index == IndexOfId(convs, id)
  IN  IF index # 0
        THEN [convs EXCEPT ![index] = [@ EXCEPT !.messages = msgs, !.timestamp = now]]
        ELSE convs

----------------------------------------------------------------------------
(* The conversation session *)
DefaultModel == <<"gpt", "-3.5-turbo">>

\* the title of a conversation nobody named, and the title fullpage.js derives
\* from the user's message: its first TitleChars characters, then an ellipsis
DefaultTitle == <<"New Conversation">>
TitleChars == 30
derivedTitle(um) == IF Len(um) > TitleChars THEN FirstN(um, TitleChars) \o <<"...">> ELSE um
ModelOrDefault(m) == IF m = <<>> THEN DefaultModel ELSE m

SessionState ==
  IF isProcessing THEN "Awaiting Response"
  ELSE IF lastRendered = "error" THEN "Error Displayed"
  ELSE "Idle"

\* Temperatures are counted in tenths: 7 is 0.7
DefaultTemperature == 7

\* sendMessage: temperature: chatSettings.temperature || 0.7
dataTemperature(cs) == IF cs.temperature = 0 THEN DefaultTemperature ELSE cs.temperature

\* callOpenAI / fetchFromOpenAI: temperature: params.temperature || 0.7
bodyTemperature(t) == IF t = 0 THEN DefaultTemperature ELSE t

\* The messages array sendMessage hands to the provider call
BuildRequest(cs, conv, limit, um) ==
  (IF cs.systemPrompt # <<>> THEN <<Msg("system", cs.systemPrompt)>> ELSE <<>>)
    \o Trim(conv, limit) \o <<Msg("user", um)>>

\* Chat.saveConversation / fullpage saveChatSettings, as called by a handler that
\* leaves the session's messages as msgs
SessionSave(msgs) ==
  /\ saveTriggered' = TRUE
  /\ IF ui = "chat"
       THEN /\ stored' = saveConversation(stored,
                           Entry(currentConversationId, clock, msgs),
                           globalSettings, clock)
            /\ UNCHANGED <<conversations, maxHistoryItems>>
       ELSE /\ conversations' = fpUpdateLocal(conversations, currentConversationId,
                                              msgs, clock)
            /\ stored' = IF IndexOfId(conversations, currentConversationId) # 0
                           THEN conversations' ELSE stored
            /\ maxHistoryItems' = 0

NoSave ==
  /\ saveTriggered' = FALSE
  /\ UNCHANGED <<stored, conversations, maxHistoryItems>>

\* if (this.options.saveHistory && this.globalSettings.saveConversations !== false);
\* fullpage.js saves unconditionally
SaveEnabled == ui = "fullpage" \/ globalSettings.saveConversations

\* a guard that looks at the text only
SendRejectsNoGuard(um) == um = <<>>

\* a guard that keeps refusing once an error is on display
SendRejectsAfterError(um) == um = <<>> \/ isProcessing \/ lastRendered = "error"

\* The guard of sendMessage: true when the call returns at once
SendRejects(um) == um = <<>> \/ isProcessing

\* sendMessage up to its first await
SendMessageWithin(text, bound) ==
  LET um == JsTrim(text) IN
  IF SendRejects(um)
    THEN /\ lastEvent' = "rejected"
         /\ UNCHANGED <<ui, conversation, isProcessing, pc, userMessage, preSend, sentOn, sentTemperature,
                        request, outstanding, fetched, saveTriggered, lastRendered,
                        lastOutcome, chatSettings, storeVars, trimVars, raceVars, messagingVars, settingsVars>>
    ELSE /\ Len(conversation) < bound
         /\ isProcessing' = TRUE
         /\ userMessage' = um
         /\ preSend' = conversation
         /\ sentOn' = currentConversationId
         /\ sentTemperature' = <<bodyTemperature(dataTemperature(chatSettings))>>
         /\ request' = BuildRequest(chatSettings, conversation,
                                    globalSettings.contextWindow, um)
         /\ conversation' = Append(conversation, Msg("user", um))
         /\ lastRendered' = "typing"
         /\ pc' = "keycheck"
         /\ outstanding' = outstanding + 1
         /\ fetched' = FALSE
         /\ saveTriggered' = FALSE
         /\ lastEvent' = "sent"
         /\ lastOutcome' = NoOutcome
         /\ UNCHANGED <<ui, chatSettings, storeVars, trimVars, raceVars, messagingVars, settingsVars>>

SendMessage(text) == SendMessageWithin(text, MaxMsgs)

\* a failure path without the finally block
FailKeepsGuard(kind) ==
  /\ lastRendered' = "error"
  /\ pc' = "idle"
  /\ outstanding' = outstanding - 1
  /\ lastEvent' = kind
  /\ NoSave
  /\ UNCHANGED <<ui, conversation, isProcessing, userMessage, preSend, sentOn, sentTemperature, request,
                 chatSettings, storeRest, trimVars, raceVars, messagingVars, settingsVars>>

\* catch and finally of sendMessage
Fail(kind) ==
  /\ lastRendered' = "error"
  /\ isProcessing' = FALSE
  /\ pc' = "idle"
  /\ outstanding' = outstanding - 1
  /\ lastEvent' = kind
  /\ NoSave
  /\ UNCHANGED <<ui, conversation, userMessage, preSend, sentOn, sentTemperature, request, chatSettings,
                 storeRest, trimVars, raceVars, messagingVars, settingsVars>>

\* The provider the request path resolves, and the providers it can call
PathProvider ==
  IF ui = "chat" THEN getProviderFromModel(ModelOrDefault(chatSettings.model))
  ELSE bgGetProviderFromModel(ModelOrDefault(chatSettings.model))

Callable ==
  IF ui = "chat" THEN {"openai", "anthropic", "mistral", "openrouter"}
  ELSE {"openai", "anthropic", "mistral"}

\* getLLMResponse (api.js) / fetchLLMResponse (background.js) after the settings read
KeyCheck ==
  /\ pc = "keycheck"
  /\ IF ApiKeyOf(globalSettings, PathProvider) = ""
       THEN Fail("MissingCredential") /\ UNCHANGED <<fetched, lastOutcome>>
     ELSE IF PathProvider \notin Callable
       THEN Fail("UnsupportedProvider") /\ UNCHANGED <<fetched, lastOutcome>>
     ELSE /\ pc' = "fetch"
          /\ fetched' = TRUE
          /\ lastEvent' = "fetching"
          /\ UNCHANGED <<ui, conversation, isProcessing, userMessage, preSend, sentOn, sentTemperature,
                         request, outstanding, saveTriggered, lastRendered,
                         lastOutcome, chatSettings, storeVars, trimVars, raceVars, messagingVars, settingsVars>>

\* Appending the assistant message and saving: the success branch
Succeed(text) ==
  /\ conversation' = Append(conversation, Msg("assistant", text))
  /\ lastRendered' = "assistant"
  /\ isProcessing' = FALSE
  /\ pc' = "idle"
  /\ outstanding' = outstanding - 1
  /\ lastEvent' = "success"
  /\ chatSettings' = IF ui = "fullpage" /\ chatSettings.title = DefaultTitle
                       THEN [chatSettings EXCEPT !.title = derivedTitle(userMessage)]
                       ELSE chatSettings
  /\ IF SaveEnabled THEN SessionSave(conversation') ELSE NoSave
  /\ UNCHANGED <<ui, userMessage, preSend, sentOn, sentTemperature, request, fetched,
                 storeRest, trimVars, raceVars, messagingVars, settingsVars>>

\* Chat.sendMessage after the provider call settles (api.js call* included)
ChatComplete(o) ==
  IF o.kind = "transport" THEN Fail("TransportError")
  ELSE IF o.kind = "http"
    THEN IF o.parseable THEN Fail("ProviderError") ELSE Fail("TransportError")
  ELSE LET text == extractContentFromResponse(o.body,
                     getProviderFromModel(chatSettings.model))
       IN  IF text # <<>> THEN Succeed(text) ELSE Fail("MalformedResponse")

\* fullpage.js sendMessage after the background's answer (fetchFrom* included)
FullpageComplete(o) ==
  IF o.kind = "transport" THEN Fail("TransportError")
  ELSE IF o.kind = "http"
    THEN IF o.parseable THEN Fail("ProviderError") ELSE Fail("ParseError")
  ELSE IF o.body.hasChoices /\ o.body.choices # <<>>
    THEN Succeed(o.body.choices[1])
  ELSE IF o.body.hasContent
    THEN IF o.body.content # <<>> THEN Succeed(o.body.content[1])
         ELSE Fail("ProcessingError")
  ELSE Succeed(UnknownFormatText)

Complete(o) ==
  /\ pc = "fetch"
  /\ fetched' = fetched
  /\ lastOutcome' = o
  /\ IF ui = "chat" THEN ChatComplete(o) ELSE FullpageComplete(o)

\* a clear that starts the conversation again from the kept system message
\* and the chat's system prompt
ClearChatWithPrompt ==
  /\ conversation' = FindSystem(conversation)
                       \o (IF chatSettings.systemPrompt # <<>>
                             THEN <<Msg("system", chatSettings.systemPrompt)>> ELSE <<>>)
  /\ lastRendered' = "empty"
  /\ lastEvent' = "cleared"
  /\ IF SaveEnabled THEN SessionSave(conversation') ELSE NoSave
  /\ UNCHANGED <<ui, isProcessing, pc, userMessage, preSend, sentOn, sentTemperature, request, outstanding,
                 fetched, lastOutcome, chatSettings, storeRest, trimVars, raceVars, messagingVars, settingsVars>>

\* clearChat
ClearChat ==
  /\ conversation' = FindSystem(conversation)
  /\ lastRendered' = "empty"
  /\ lastEvent' = "cleared"
  /\ IF SaveEnabled THEN SessionSave(conversation') ELSE NoSave
  /\ UNCHANGED <<ui, isProcessing, pc, userMessage, preSend, sentOn, sentTemperature, request, outstanding,
                 fetched, lastOutcome, chatSettings, storeRest, trimVars, raceVars, messagingVars, settingsVars>>

----------------------------------------------------------------------------
(* Settings objects.  A JavaScript object is a function from the names of   *)
(* its properties to their values.                                          *)
EmptyObj == [k \in {} |-> ""]

\* {...a, ...b}
Spread(a, b) ==
  [k \in DOMAIN a \cup DOMAIN b |-> IF k \in DOMAIN b THEN b[k] ELSE a[k]]

\* a storage key that holds nothing: chrome.storage.sync.get answers undefined
NoDoc == [undefined |-> TRUE]

\* the literal of DEFAULT_GLOBAL_SETTINGS and of resetGlobalSettings; the scalar
\* fields are represented by theme and contextWindow
DocumentedDefaults ==
  [theme |-> "light",
   apiKeys |-> [openai |-> "", anthropic |-> "", mistral |-> ""],
   contextWindow |-> 0]

\* the document background.js writes on install
InstalledSettings ==
  [theme |-> "light",
   apiKeys |-> [openai |-> "", anthropic |-> "", mistral |-> ""],
   shortcuts |-> "Alt+L"]

\* a document written by the settings page, a credential for each provider
ConfiguredSettings ==
  [theme |-> "dark",
   apiKeys |-> [openai |-> "k1", anthropic |-> "k2", mistral |-> "k3",
                openrouter |-> "k4"],
   contextWindow |-> 0]

DEFAULT_CHAT_SETTINGS == [title |-> "New Conversation"]

\* settings.apiKeys || {}
ApiKeysOrEmpty(settings) ==
  IF "apiKeys" \in DOMAIN settings THEN settings.apiKeys ELSE EmptyObj

\* services/storage.js getGlobalSettings / getChatSettings
getSettings(doc, defaults) == IF doc = NoDoc THEN defaults ELSE doc

\* an update that replaces the credentials object instead of merging it
shallowUpdatedSettings(currentSettings, settings) == Spread(currentSettings, settings)

\* services/settings.js updateGlobalSettings: the merged object
updatedSettings(currentSettings, settings) ==
  Spread(Spread(currentSettings, settings),
         [apiKeys |-> Spread(ApiKeysOrEmpty(currentSettings), ApiKeysOrEmpty(settings))])

\* services/storage.js saveGlobalSettings: the document it writes
mergedSettings(settings, defaults) ==
  Spread(Spread(defaults, settings),
         [apiKeys |-> Spread(defaults.apiKeys, ApiKeysOrEmpty(settings))])

\* services/settings.js setGlobalSetting: the object after the assignment
SetPath(settings, path, value) ==
  IF Len(path) = 1
    THEN Spread(settings, [k \in {path[1]} |-> value])
    ELSE LET inner == IF path[1] \in DOMAIN settings THEN settings[path[1]] ELSE EmptyObj
         IN  Spread(settings, [k \in {path[1]} |->
                                 Spread(inner, [j \in {path[2]} |-> value])])

Channels == {"global", "chat"}
Callbacks == {"f", "g", "t"}
\* the subscriptions made: two listeners of the global channel, one of them
\* throwing, and a listener of the chat channel
Subscriptions ==
  {[type |-> "global", callback |-> "t"], [type |-> "global", callback |-> "f"],
   [type |-> "chat", callback |-> "g"]}
\* the callbacks that throw when they are invoked
Throwers == {"t"}

NoHandlers == [global |-> <<>>, chat |-> <<>>]
\* the record of a completed call: its argument, what get() answered before it,
\* whether its write succeeded, whether a subscriber's exception reached the
\* caller, and the settings object it computed and returns
Call(name, channel, arg, before, ok, raised, returned) ==
  [op |-> name, channel |-> channel, arg |-> arg, before |-> before, ok |-> ok,
   raised |-> raised, returned |-> returned]
NoCall == Call("none", "none", NoDoc, NoDoc, TRUE, FALSE, NoDoc)

SettingsIdle ==
  /\ DEFAULT_GLOBAL_SETTINGS = DocumentedDefaults
  /\ persistedChatSettings = NoDoc
  /\ settingsEventHandlers = NoHandlers
  /\ unsubscribed = {}
  /\ calls = <<>> /\ lastCall = NoCall

----------------------------------------------------------------------------
(* Initial states *)
\* no upsert under way: each writer idle, no write landed
Writers == {"w1", "w2"}
NoUpserts == [writer |-> [w \in Writers |-> [pc |-> "idle", kind |-> "none", conv |-> [id |-> 0, timestamp |-> 0, messages |-> <<>>], read |-> <<>>]],
              landed |-> <<>>]
UpsertsIdle == upserts = NoUpserts

\* no settings update under way
NoUpdates == [writer |-> [w \in Writers |-> [pc |-> "idle", change |-> <<>>, read |-> <<>>]],
              landed |-> <<>>]
UpdatesIdle == updates = NoUpdates

\* no message delivered to a listener yet
MessagingIdle == delivered = <<>>

TrimIdle ==
  /\ tHistory = <<>> /\ tLimit = 0 /\ tOut = <<>> /\ tAgain = <<>> /\ tPc = "off"

SessionIdle ==
  /\ ui = "chat"
  /\ conversation = <<>> /\ isProcessing = FALSE /\ pc = "idle"
  /\ userMessage = <<>> /\ preSend = <<>> /\ sentOn = 0 /\ sentTemperature = <<>> /\ request = <<>>
  /\ outstanding = 0 /\ fetched = FALSE /\ saveTriggered = FALSE
  /\ lastRendered = "empty" /\ lastEvent = "init" /\ lastOutcome = NoOutcome
  /\ chatSettings = [model |-> DefaultModel, systemPrompt |-> <<"s">>,
                    title |-> DefaultTitle,
                    temperature |-> DefaultTemperature]

WindowChoices == {0, 1}

Init ==
  /\ ui \in {"chat", "fullpage"}
  /\ conversation = <<>> /\ isProcessing = FALSE /\ pc = "idle"
  /\ userMessage = <<>> /\ preSend = <<>> /\ sentOn = 0 /\ sentTemperature = <<>> /\ request = <<>>
  /\ outstanding = 0 /\ fetched = FALSE /\ saveTriggered = FALSE
  /\ lastRendered = "empty" /\ lastEvent = "init" /\ lastOutcome = NoOutcome
  /\ chatSettings \in [model : Models, systemPrompt : {<<>>, <<"s">>},
                       title : {DefaultTitle},
                       temperature : {DefaultTemperature}]
  /\ globalSettings \in [apiKeys : {NoKeys, AllKeys}, saveConversations : BOOLEAN,
                         maxConversations : {MaxCap}, contextWindow : WindowChoices]
  /\ maxHistoryItems = DefaultMaxConversations
  /\ clock = 1
  /\ currentConversationId = 1
  /\ fpMaxConversations = globalSettings.maxConversations
  /\ inserted = <<>> /\ lastOp = NoOp
  /\ stored = IF ui = "chat" THEN <<>> ELSE <<Entry(1, 1, <<>>)>>
  /\ conversations = stored
  /\ TrimIdle /\ UpsertsIdle /\ UpdatesIdle /\ MessagingIdle /\ SettingsIdle

Next ==
  \/ \E text \in Inputs : SendMessage(text)
  \/ KeyCheck
  \/ \E o \in Outcomes : Complete(o)
  \/ ClearChat

Spec == Init /\ [][Next]_vars

----------------------------------------------------------------------------
(* Claims about the session *)

\* The reply field the resolved provider's success payload must carry
WellFormed(body, provider) ==
  IF provider = "anthropic"
    THEN body.hasContent /\ body.content # <<>> /\ body.content[1] # <<>>
    ELSE body.hasChoices /\ body.choices # <<>> /\ body.choices[1] # <<>>

\* The provider call of the last send failed with a ProviderError, a
\* TransportError or a MalformedResponse
CallFailed(o) ==
  \/ o.kind \in {"transport", "http"}
  \/ o.kind = "ok" /\ ~WellFormed(o.body, PathProvider)

CallSucceeded(o) == o.kind = "ok" /\ WellFormed(o.body, PathProvider)

\* The state right after the provider call of a send has settled
JustSettled ==
  /\ lastOutcome.kind # "none"
  /\ lastEvent \notin {"rejected", "cleared", "sent", "fetching", "init"}

\* C1: a send issued while Awaiting Response, or with empty or whitespace-only
\* text, appends no message, starts no provider call and leaves the session state
\* unchanged; a session never has more than one provider request outstanding.
C1_SendGuard ==
  /\ [](outstanding <= 1)
  /\ [][\A text \in Inputs :
          (SendMessage(text) /\ (isProcessing \/ JsTrim(text) = <<>>))
            => UNCHANGED <<conversation, isProcessing, pc, userMessage, request,
                           outstanding, fetched, lastRendered, chatSettings,
                           storeVars>>]_vars

C1_Witness == lastEvent = "rejected" /\ isProcessing /\ pc = "fetch" /\ outstanding = 1

\* C2: whenever the provider call of a send fails with a ProviderError,
\* TransportError or MalformedResponse, the session ends in Error Displayed and
\* its messages are the pre-send messages followed by exactly the user's message.
C2_FailureKeepsOnlyUserMessage ==
  (JustSettled /\ CallFailed(lastOutcome))
    => /\ SessionState = "Error Displayed"
       /\ conversation = Append(preSend, Msg("user", userMessage))

\* C3: whenever the provider call of a send succeeds with a well-formed reply,
\* the session returns to Idle, its messages are the pre-send messages followed
\* by the user's message and then the assistant reply, and an upsert of the
\* conversation is triggered (the history being saved: saveConversations).
C3_SuccessAppendsAndSaves ==
  (JustSettled /\ CallSucceeded(lastOutcome))
    => /\ SessionState = "Idle"
       /\ conversation = preSend \o <<Msg("user", userMessage),
                                      Msg("assistant", Reply)>>
       /\ globalSettings.saveConversations => saveTriggered

\* C4: with an empty credential for the resolved provider, send fails with
\* MissingCredential before any network call and leaves messages exactly as they
\* were before the send (the user message is not appended).
C4_MissingCredentialLeavesMessages ==
  (lastEvent = "MissingCredential" /\ PathProvider \in KeyNames)
    => ~fetched /\ conversation = preSend

----------------------------------------------------------------------------
(* The trimmer applied to bounded inputs, then to its own result *)
StoreIdle ==
  /\ globalSettings = [apiKeys |-> NoKeys, saveConversations |-> TRUE,
                       maxConversations |-> DefaultMaxConversations,
                       contextWindow |-> 0]
  /\ maxHistoryItems = DefaultMaxConversations
  /\ stored = <<>> /\ conversations = <<>>
  /\ currentConversationId = 1 /\ clock = 1
  /\ fpMaxConversations = DefaultMaxConversations
  /\ inserted = <<>> /\ lastOp = NoOp

InitTrim ==
  /\ SessionIdle /\ StoreIdle /\ SettingsIdle /\ UpsertsIdle /\ UpdatesIdle /\ MessagingIdle
  /\ tHistory \in SeqsUpTo(TrimMsgs, MaxHist)
  /\ tLimit \in 0..MaxLimit
  /\ tOut = <<>> /\ tAgain = <<>> /\ tPc = "input"

ApplyTrim ==
  /\ tPc = "input"
  /\ tOut' = Trim(tHistory, tLimit)
  /\ tPc' = "trimmed"
  /\ UNCHANGED <<tHistory, tLimit, tAgain, sessionVars, storeVars, settingsVars, raceVars, messagingVars>>

ReapplyTrim ==
  /\ tPc = "trimmed"
  /\ tAgain' = Trim(tOut, tLimit)
  /\ tPc' = "retrimmed"
  /\ UNCHANGED <<tHistory, tLimit, tOut, sessionVars, storeVars, settingsVars, raceVars, messagingVars>>

NextTrim == ApplyTrim \/ ReapplyTrim

SpecTrim == InitTrim /\ [][NextTrim]_vars

HasSystem(h) == \E i \in 1..Len(h) : IsSystem(h[i])

\* C10: for every non-empty history and every limit > 0 the trimmed sequence has
\* at most limit + 1 messages when a system message is present and at most limit
\* otherwise, and trimming the trimmed sequence again returns it unchanged.
C10_TrimBoundedIdempotent ==
  (tHistory # <<>> /\ tLimit > 0)
    => /\ tPc \in {"trimmed", "retrimmed"}
            => Len(tOut) <= tLimit + (IF HasSystem(tHistory) THEN 1 ELSE 0)
       /\ tPc = "retrimmed" => tAgain = tOut

C10_Witness ==
  /\ tPc = "retrimmed" /\ tLimit > 0 /\ HasSystem(tHistory)
  /\ Len(tHistory) > tLimit + 1
  /\ Len(tOut) = tLimit + 1 /\ tOut # tHistory /\ tAgain = tOut

----------------------------------------------------------------------------
(* The persisted conversation collection and the operations that write it *)
MaxIds == 3

ConvIds == 1..MaxIds
CapChoices == 1..MaxCap

Ids(convs) == { convs[i].id : i \in 1..Len(convs) }

\* the files offered to importData: their cap and their conversations
ImportEntries == { Entry(id, 1, <<>>) : id \in 1..2 }
ImportLists ==
  { l \in SeqsUpTo(ImportEntries, 2) : Cardinality(Ids(l)) = Len(l) }
ImportFiles == [maxConversations : CapChoices, conversations : ImportLists]

\* chatSettings.maxHistoryItems || 100
MaxHistoryOf(n) == IF n = 0 THEN DefaultMaxConversations ELSE n

\* background.js saveConversation: the collection it writes
bgSaveConversation(convs, conv, maxHistory, now) ==
  LET c == [conv EXCEPT !.timestamp = IF @ = 0 THEN now ELSE @]
  IN  FirstN(<<c>> \o convs, MaxHistoryOf(maxHistory))

\* services/storage.js importData: the collection it writes
mergedConversations(current, data, overwrite) ==
  IF overwrite
    THEN data.conversations
    ELSE current \o SelectSeq(data.conversations, LAMBDA c : c.id \notin Ids(current))

\* Chat.saveConversation -> StorageService.saveConversation
StoreUpsert(id, now) ==
  LET conv == Entry(id, now, <<>>)
  IN  /\ stored' = saveConversation(stored, conv, globalSettings, now)
      /\ inserted' = IF id \in Ids(stored) THEN inserted ELSE Append(inserted, conv)
      /\ lastOp' = Op(IF id \in Ids(stored) THEN "update" ELSE "insert", id)
      /\ clock' = now
      /\ UNCHANGED <<globalSettings, maxHistoryItems, conversations,
                     currentConversationId, fpMaxConversations, sessionVars, trimVars, raceVars, messagingVars, settingsVars>>

\* background.js onMessage "saveConversation"
BgSave(id, now) ==
  /\ stored' = bgSaveConversation(stored, Entry(id, now, <<>>), maxHistoryItems, now)
  /\ lastOp' = Op("bgSave", id)
  /\ clock' = now
  /\ UNCHANGED <<globalSettings, maxHistoryItems, conversations, inserted,
                 currentConversationId, fpMaxConversations, sessionVars, trimVars, raceVars, messagingVars, settingsVars>>

\* services/storage.js deleteConversation
\* a delete that answers found whether or not the id was stored
DeleteAlwaysFound(id, now) ==
  /\ stored' = SelectSeq(stored, LAMBDA c : c.id # id)
  /\ lastOp' = Op("delete", id)
  /\ clock' = now
  /\ UNCHANGED <<globalSettings, maxHistoryItems, conversations, inserted,
                 currentConversationId, fpMaxConversations, sessionVars, trimVars, raceVars, messagingVars, settingsVars>>

DeleteConversation(id, now) ==
  LET updatedConversations == SelectSeq(stored, LAMBDA c : c.id # id)
  IN  /\ IF Len(updatedConversations) = Len(stored)
           THEN stored' = stored /\ lastOp' = Op("deleteMiss", id)
           ELSE stored' = updatedConversations /\ lastOp' = Op("delete", id)
      /\ clock' = now
      /\ UNCHANGED <<globalSettings, maxHistoryItems, conversations, inserted,
                     currentConversationId, fpMaxConversations, sessionVars, trimVars, raceVars, messagingVars, settingsVars>>

\* services/storage.js importData, importApiKeys false.  The file carries the
\* current saveConversations and contextWindow, and no maxHistoryItems.
ImportData(data, overwrite, now) ==
  /\ stored' = mergedConversations(stored, data, overwrite)
  /\ globalSettings' = [globalSettings EXCEPT
                          !.maxConversations = data.maxConversations,
                          !.apiKeys = IF overwrite THEN NoKeys ELSE @]
  /\ maxHistoryItems' = IF overwrite THEN 0 ELSE maxHistoryItems
  /\ lastOp' = Op(IF overwrite THEN "importOverwrite" ELSE "importMerge", 0)
  /\ clock' = now
  /\ UNCHANGED <<conversations, inserted, currentConversationId,
                 fpMaxConversations, sessionVars, trimVars, raceVars, messagingVars, settingsVars>>

\* settings/settings.js: the save button writes the form's maxConversations
SetMaxConversations(n, now) ==
  /\ n # globalSettings.maxConversations
  /\ globalSettings' = [globalSettings EXCEPT !.maxConversations = n]
  /\ lastOp' = Op("setMax", n)
  /\ clock' = now
  /\ UNCHANGED <<stored, maxHistoryItems, conversations, inserted,
                 currentConversationId, fpMaxConversations, sessionVars, trimVars, raceVars, messagingVars, settingsVars>>

\* fullpage.js startNewConversation: the window's list after the unshift and slice
fpNewLocal(convs, id, max, now) ==
  FirstN(<<Entry(id, now, <<>>)>> \o convs, MaxConversationsOf([maxConversations |-> max]))

\* Date.now().toString() of a new conversation is an id no list holds yet
FreshIds == ConvIds \ (Ids(stored) \cup Ids(conversations))

\* fullpage.js startNewConversation
FpStartNewConversation(id, now) ==
  /\ id \in FreshIds
  /\ currentConversationId' = id
  /\ conversations' = fpNewLocal(conversations, id, fpMaxConversations, now)
  /\ stored' = conversations'
  /\ lastOp' = Op("fpNew", id)
  /\ clock' = now
  /\ UNCHANGED <<globalSettings, maxHistoryItems, inserted, fpMaxConversations,
                 sessionVars, trimVars, raceVars, messagingVars, settingsVars>>

\* fullpage.js DOMContentLoaded: loadSettings, loadConversations, then the
\* first conversation is loaded or a new one is started
FpOpen(id, now) ==
  /\ fpMaxConversations' = globalSettings.maxConversations
  /\ IF Len(stored) > 0
       THEN /\ conversations' = stored
            /\ currentConversationId' = stored[1].id
            /\ stored' = stored
            /\ lastOp' = Op("fpOpen", stored[1].id)
       ELSE /\ id \in ConvIds
            /\ currentConversationId' = id
            /\ conversations' = fpNewLocal(<<>>, id, globalSettings.maxConversations, now)
            /\ stored' = conversations'
            /\ lastOp' = Op("fpNew", id)
  /\ clock' = now
  /\ UNCHANGED <<globalSettings, maxHistoryItems, inserted, sessionVars, trimVars, raceVars, messagingVars, settingsVars>>

\* fullpage.js loadConversation
FpLoadConversation(id, now) ==
  /\ id \in Ids(conversations)
  /\ id # currentConversationId
  /\ currentConversationId' = id
  /\ lastOp' = Op("fpLoad", id)
  /\ clock' = now
  /\ UNCHANGED <<globalSettings, maxHistoryItems, stored, conversations, inserted,
                 fpMaxConversations, sessionVars, trimVars, raceVars, messagingVars, settingsVars>>

\* fullpage.js saveChatSettings
FpSaveChatSettings(now) ==
  /\ conversations' = fpUpdateLocal(conversations, currentConversationId, <<>>, now)
  /\ stored' = IF IndexOfId(conversations, currentConversationId) # 0
                 THEN conversations' ELSE stored
  /\ maxHistoryItems' = 0
  /\ lastOp' = Op("fpSave", currentConversationId)
  /\ clock' = now
  /\ UNCHANGED <<globalSettings, inserted, currentConversationId,
                 fpMaxConversations, sessionVars, trimVars, raceVars, messagingVars, settingsVars>>

InitStore ==
  /\ SessionIdle /\ TrimIdle /\ UpsertsIdle /\ UpdatesIdle /\ MessagingIdle /\ SettingsIdle
  /\ globalSettings \in [apiKeys : {AllKeys}, saveConversations : {TRUE},
                         maxConversations : CapChoices, contextWindow : {0}]
  /\ maxHistoryItems = DefaultMaxConversations
  /\ stored = <<>> /\ conversations = <<>>
  /\ currentConversationId = 0 /\ clock = 1
  /\ fpMaxConversations = DefaultMaxConversations
  /\ inserted = <<>> /\ lastOp = NoOp

\* every operation happens a tick after the one before it
Later == IF clock <= MaxOps THEN {clock + 1} ELSE {}

NextStore ==
  \/ \E id \in ConvIds, now \in Later : StoreUpsert(id, now)
  \/ \E id \in ConvIds, now \in Later : BgSave(id, now)
  \/ \E id \in ConvIds, now \in Later : DeleteConversation(id, now)
  \/ \E data \in ImportFiles, overwrite \in BOOLEAN, now \in Later :
       ImportData(data, overwrite, now)
  \/ \E n \in CapChoices, now \in Later : SetMaxConversations(n, now)
  \/ \E id \in ConvIds, now \in Later : FpOpen(id, now)
  \/ \E id \in ConvIds, now \in Later : FpStartNewConversation(id, now)
  \/ \E id \in ConvIds, now \in Later : FpLoadConversation(id, now)
  \/ \E now \in Later : FpSaveChatSettings(now)

SpecStore == InitStore /\ [][NextStore]_vars

NoDuplicateIds(convs) == Cardinality(Ids(convs)) = Len(convs)

\* C5: after any sequence of operations on the collection (upserts through any
\* save path, deletes, imports, new conversations, changes of the cap) the
\* persisted collection holds at most maxStoredConversations conversations.
C5_LengthWithinCap == Len(stored) <= MaxConversationsOf(globalSettings)

\* C6: an upsert of a conversation whose id is already stored never removes
\* that conversation, whatever the cap and whatever its position.
C6_UpdateKeepsConversation == lastOp.op = "update" => lastOp.id \in Ids(stored)

\* C9: no two conversations of the persisted collection share an id, after any
\* sequence of writes (store upsert, background save, new conversation, import,
\* delete).
C9_UniqueIds == NoDuplicateIds(stored)

----------------------------------------------------------------------------
(* Upserts and deletes alone *)
NextUpsert ==
  \/ \E id \in ConvIds, now \in Later : StoreUpsert(id, now)
  \/ \E id \in ConvIds, now \in Later : DeleteConversation(id, now)

SpecUpsert == InitStore /\ [][NextUpsert]_vars

MostRecentFirst(convs) ==
  \A i, j \in 1..Len(convs) : i < j => convs[i].timestamp >= convs[j].timestamp

\* C7: after any sequence of upserts and deletes the persisted collection is
\* ordered most-recently-updated-first, and an upsert that updates an existing
\* conversation leaves it at the front.
C7_MostRecentFirst ==
  /\ MostRecentFirst(stored)
  /\ (lastOp.op = "update" /\ lastOp.id \in Ids(stored)) => stored[1].id = lastOp.id

----------------------------------------------------------------------------
(* Inserts of new conversations alone *)
InsertIds == 1..MaxInserts

\* a save happens in the millisecond of the one before it, or later
SameOrLater == {clock, clock + 1}

NextInsert ==
  \E id \in InsertIds \ Ids(inserted), now \in SameOrLater : StoreUpsert(id, now)

SpecInsert == InitStore /\ [][NextInsert]_vars

Evicted == SelectSeq(inserted, LAMBDA c : c.id \notin Ids(stored))

----------------------------------------------------------------------------
(* What the trimmer returns *)
Min(a, b) == IF a < b THEN a ELSE b

\* a conversation's messages: a system message, if any, is the first one
ConversationShaped(h) == \A i \in 2..Len(h) : NotSystem(h[i])

LeadingSystem(h) == IF h # <<>> /\ IsSystem(h[1]) THEN <<h[1]>> ELSE <<>>

\* C11: trim returns the whole history when the limit is 0, and otherwise the
\* leading system message (if the history has one) followed by exactly the most
\* recent min(limit, number of non-system messages) non-system messages, in order.
C11_TrimExact ==
  (tPc \in {"trimmed", "retrimmed"} /\ ConversationShaped(tHistory))
    => tOut = IF tLimit = 0
                THEN tHistory
                ELSE LET rest == SelectSeq(tHistory, NotSystem)
                         n == Min(tLimit, Len(rest))
                     IN  LeadingSystem(tHistory) \o SubSeq(rest, Len(rest) - n + 1, Len(rest))

C11_Witness ==
  /\ tPc = "trimmed" /\ tLimit > 0 /\ ConversationShaped(tHistory)
  /\ LeadingSystem(tHistory) # <<>>
  /\ Len(SelectSeq(tHistory, NotSystem)) > tLimit
  /\ tOut = <<tHistory[1]>> \o LastN(SelectSeq(tHistory, NotSystem), tLimit)
  /\ tOut # tHistory

----------------------------------------------------------------------------
(* The request a send composes, for a session opened on a stored conversation *)
ShapedHistories == { h \in SeqsUpTo(TrimMsgs, MaxHist) : ConversationShaped(h) }

\* Chat.init with a conversationId / fullpage.js loadConversation: the messages
\* are those of the stored conversation
InitRequest ==
  /\ ui \in {"chat", "fullpage"}
  /\ conversation \in ShapedHistories
  /\ isProcessing = FALSE /\ pc = "idle"
  /\ userMessage = <<>> /\ preSend = <<>> /\ sentOn = 0 /\ sentTemperature = <<>> /\ request = <<>>
  /\ outstanding = 0 /\ fetched = FALSE /\ saveTriggered = FALSE
  /\ lastRendered = IF SelectSeq(conversation, NotSystem) = <<>> THEN "empty" ELSE "history"
  /\ lastEvent = "init" /\ lastOutcome = NoOutcome
  /\ chatSettings \in [model : {DefaultModel}, systemPrompt : {<<>>, <<"s">>},
                       title : {DefaultTitle},
                       temperature : {DefaultTemperature}]
  /\ globalSettings \in [apiKeys : {AllKeys}, saveConversations : {TRUE},
                         maxConversations : {MaxCap}, contextWindow : 0..MaxLimit]
  /\ maxHistoryItems = DefaultMaxConversations
  /\ clock = 1
  /\ currentConversationId = 1
  /\ fpMaxConversations = globalSettings.maxConversations
  /\ inserted = <<>> /\ lastOp = NoOp
  /\ stored = <<Entry(1, 1, conversation)>>
  /\ conversations = stored
  /\ TrimIdle /\ UpsertsIdle /\ UpdatesIdle /\ MessagingIdle /\ SettingsIdle

NextRequest == \E text \in Inputs : SendMessageWithin(text, MaxHist + 1)

SpecRequest == InitRequest /\ [][NextRequest]_vars

SystemMessages(h) == SelectSeq(h, IsSystem)

\* the send has just composed its request
JustSent == lastEvent = "sent" /\ pc = "keycheck"

\* C12: for a context window limit L > 0 and a conversation holding more than L
\* non-system messages (a system message being present), the request consists of
\* exactly one system message, then the last L non-system history messages in
\* order, then the new user message: L + 2 messages in all.
C12_RequestComposition ==
  LET L == globalSettings.contextWindow
      rest == SelectSeq(preSend, NotSystem)
  IN  (/\ JustSent
       /\ L > 0 /\ Len(rest) > L
       /\ (chatSettings.systemPrompt # <<>> \/ HasSystem(preSend)))
        => /\ Len(request) = L + 2
           /\ Len(SystemMessages(request)) = 1
           /\ IsSystem(request[1])
           /\ SubSeq(request, 2, Len(request)) =
                LastN(rest, L) \o <<Msg("user", userMessage)>>

----------------------------------------------------------------------------
(* Sends after a failure *)

\* C13: from Error Displayed, the next send with non-empty text goes to Awaiting
\* Response and issues a provider call exactly as it would from Idle.
C13_ErrorNotSticky ==
  [][\A text \in Inputs :
       (SendMessage(text) /\ SessionState = "Error Displayed" /\ JsTrim(text) # <<>>)
         => /\ SessionState' = "Awaiting Response"
            /\ outstanding' = 1 /\ pc' = "keycheck"
            /\ request' = BuildRequest(chatSettings, conversation,
                                       globalSettings.contextWindow, JsTrim(text))
            /\ conversation' = Append(conversation, Msg("user", JsTrim(text)))]_vars

\* a send accepted right after a failed one: the messages before it end with the
\* user message of the failed send
C13_Witness ==
  /\ JustSent /\ isProcessing /\ outstanding = 1
  /\ preSend # <<>> /\ preSend[Len(preSend)].role = "user"

----------------------------------------------------------------------------
(* Saving switched off *)

\* C14: while saveConversations is false, a successful send still appends the
\* user message and the assistant reply to the in-memory messages, and writes
\* nothing to the persisted conversations.
C14_NoWriteWhenSavingOff ==
  (JustSettled /\ CallSucceeded(lastOutcome) /\ ~globalSettings.saveConversations)
    => /\ Len(conversation) >= 2
       /\ SubSeq(conversation, Len(conversation) - 1, Len(conversation)) =
            <<Msg("user", userMessage), conversation[Len(conversation)]>>
       /\ conversation[Len(conversation)].role = "assistant"
       /\ ~saveTriggered

----------------------------------------------------------------------------
(* The settings service: updates, resets, single-key sets and subscribers.  *)
(* One action is one completed call; a callback either returns or throws.   *)
storeButSettings ==
  <<maxHistoryItems, stored, conversations, currentConversationId, clock,
    fpMaxConversations, inserted, lastOp>>

\* a notification that reaches the subscribers of every channel
notifyEveryChannel(type, settings) ==
  LET hs == settingsEventHandlers["global"] \o settingsEventHandlers["chat"]
  IN  [invoked |-> [i \in 1..Len(hs) |-> [callback |-> hs[i], settings |-> settings]],
       raised |-> FALSE]

\* a notification without the try/catch around each callback
notifyWithoutCatch(type, settings) ==
  LET hs == settingsEventHandlers[type]
      throwing == { i \in 1..Len(hs) : hs[i] \in Throwers }
      last == IF throwing = {} THEN Len(hs)
              ELSE CHOOSE i \in throwing : \A j \in throwing : i <= j
  IN  [invoked |-> [i \in 1..last |-> [callback |-> hs[i], settings |-> settings]],
       raised |-> throwing # {}]

\* the callbacks invoked, in order, and whether an exception left the loop
notifySettingsChanged(type, settings) ==
  LET hs == settingsEventHandlers[type]
  IN  [invoked |-> [i \in 1..Len(hs) |-> [callback |-> hs[i], settings |-> settings]],
       raised |-> FALSE]

Subscribed(cb) ==
  \E type \in Channels :
    \E i \in 1..Len(settingsEventHandlers[type]) : settingsEventHandlers[type][i] = cb

\* each callback stands for one subscription: it subscribes once, to one channel
SubscribeToSettingsChanges(type, cb) ==
  /\ ~Subscribed(cb) /\ cb \notin unsubscribed
  /\ settingsEventHandlers' =
       [settingsEventHandlers EXCEPT ![type] = Append(@, cb)]
  /\ calls' = <<>>
  /\ lastCall' = Call("subscribe", type, NoDoc, NoDoc, TRUE, FALSE, NoDoc)
  /\ UNCHANGED <<sessionVars, storeVars, trimVars, raceVars, messagingVars, DEFAULT_GLOBAL_SETTINGS,
                 persistedChatSettings, unsubscribed>>

\* the function subscribe returned: indexOf, then splice
Unsubscribe(cb) ==
  /\ Subscribed(cb)
  /\ settingsEventHandlers' =
       [type \in Channels |-> SelectSeq(settingsEventHandlers[type], LAMBDA c : c # cb)]
  /\ unsubscribed' = unsubscribed \cup {cb}
  /\ calls' = <<>>
  /\ lastCall' = Call("unsubscribe", "none", NoDoc, NoDoc, TRUE, FALSE, NoDoc)
  /\ UNCHANGED <<sessionVars, storeVars, trimVars, raceVars, messagingVars, DEFAULT_GLOBAL_SETTINGS,
                 persistedChatSettings>>

\* what every call on the global channel leaves alone
GlobalFrame ==
  UNCHANGED <<sessionVars, storeButSettings, trimVars, raceVars, messagingVars, persistedChatSettings,
              settingsEventHandlers, unsubscribed>>

\* the write, the notification and the record of a call on the global channel
GlobalCall(name, arg, before, settings, writeOk) ==
  LET n == notifySettingsChanged("global", settings)
  IN  /\ globalSettings' = IF writeOk
                             THEN mergedSettings(settings, DEFAULT_GLOBAL_SETTINGS')
                             ELSE globalSettings
      /\ calls' = IF writeOk THEN n.invoked ELSE <<>>
      /\ lastCall' = Call(name, "global", arg, before, writeOk, writeOk /\ n.raised,
                          IF writeOk THEN settings ELSE NoDoc)
      /\ GlobalFrame

UpdateGlobalSettings(settings, writeOk) ==
  LET currentSettings == getSettings(globalSettings, DEFAULT_GLOBAL_SETTINGS)
  IN  /\ UNCHANGED DEFAULT_GLOBAL_SETTINGS
      /\ GlobalCall("update", settings, currentSettings,
                    updatedSettings(currentSettings, settings), writeOk)

ResetGlobalSettings(writeOk) ==
  /\ UNCHANGED DEFAULT_GLOBAL_SETTINGS
  /\ GlobalCall("reset", NoDoc, getSettings(globalSettings, DEFAULT_GLOBAL_SETTINGS),
                DocumentedDefaults, writeOk)

\* the object getGlobalSettings returned is assigned to in place; with no
\* stored document that object is DEFAULT_GLOBAL_SETTINGS itself
SetGlobalSetting(path, value, writeOk) ==
  LET before == getSettings(globalSettings, DEFAULT_GLOBAL_SETTINGS)
      settings == SetPath(before, path, value)
  IN  /\ DEFAULT_GLOBAL_SETTINGS' =
           IF globalSettings = NoDoc THEN settings ELSE DEFAULT_GLOBAL_SETTINGS
      /\ GlobalCall("set", [path |-> path, value |-> value], before, settings, writeOk)

ChatCall(name, arg, before, settings, writeOk) ==
  LET n == notifySettingsChanged("chat", settings)
  IN  /\ persistedChatSettings' = IF writeOk
                                    THEN Spread(DEFAULT_CHAT_SETTINGS, settings)
                                    ELSE persistedChatSettings
      /\ calls' = IF writeOk THEN n.invoked ELSE <<>>
      /\ lastCall' = Call(name, "chat", arg, before, writeOk, writeOk /\ n.raised,
                          IF writeOk THEN settings ELSE NoDoc)
      /\ UNCHANGED <<sessionVars, storeVars, trimVars, raceVars, messagingVars, DEFAULT_GLOBAL_SETTINGS,
                     settingsEventHandlers, unsubscribed>>

UpdateChatSettings(settings, writeOk) ==
  LET currentSettings == getSettings(persistedChatSettings, DEFAULT_CHAT_SETTINGS)
  IN  ChatCall("update", settings, currentSettings,
               Spread(currentSettings, settings), writeOk)

ResetChatSettings(writeOk) ==
  ChatCall("reset", NoDoc, getSettings(persistedChatSettings, DEFAULT_CHAT_SETTINGS),
           DEFAULT_CHAT_SETTINGS, writeOk)

\* the partial objects handed to updateGlobalSettings
Partials ==
  {[theme |-> "dark"],
   [apiKeys |-> [anthropic |-> "x"]],
   [theme |-> "light", apiKeys |-> [openrouter |-> "o"]]}
ChatPartials == {[title |-> "t"]}
\* the keys and values handed to setGlobalSetting
Assignments ==
  {[path |-> <<"theme">>, value |-> "dark"],
   [path |-> <<"apiKeys", "openrouter">>, value |-> "o"]}

InitSettings ==
  /\ SessionIdle /\ TrimIdle /\ UpsertsIdle /\ UpdatesIdle /\ MessagingIdle
  /\ maxHistoryItems = DefaultMaxConversations /\ stored = <<>> /\ conversations = <<>>
  /\ currentConversationId = 0 /\ clock = 1
  /\ fpMaxConversations = DefaultMaxConversations
  /\ inserted = <<>> /\ lastOp = NoOp
  /\ globalSettings \in {NoDoc, InstalledSettings, ConfiguredSettings}
  /\ DEFAULT_GLOBAL_SETTINGS = DocumentedDefaults
  /\ persistedChatSettings = NoDoc
  /\ settingsEventHandlers = NoHandlers
  /\ unsubscribed = {}
  /\ calls = <<>> /\ lastCall = NoCall

NextSettings ==
  \/ \E settings \in Partials, writeOk \in BOOLEAN : UpdateGlobalSettings(settings, writeOk)
  \/ \E writeOk \in BOOLEAN : ResetGlobalSettings(writeOk)
  \/ \E a \in Assignments, writeOk \in BOOLEAN : SetGlobalSetting(a.path, a.value, writeOk)
  \/ \E settings \in ChatPartials, writeOk \in BOOLEAN : UpdateChatSettings(settings, writeOk)
  \/ \E writeOk \in BOOLEAN : ResetChatSettings(writeOk)
  \/ \E s \in Subscriptions : SubscribeToSettingsChanges(s.type, s.callback)
  \/ \E cb \in Callbacks : Unsubscribe(cb)

SpecSettings == InitSettings /\ [][NextSettings]_vars

----------------------------------------------------------------------------
(* What an update leaves alone *)
\* every top-level field and every credential of before that partial does not
\* name is in after with the same value
KeptUnnamed(before, partial, after) ==
  /\ \A k \in DOMAIN before \ (DOMAIN partial \cup {"apiKeys"}) :
       k \in DOMAIN after /\ after[k] = before[k]
  /\ \A p \in DOMAIN ApiKeysOrEmpty(before) \ DOMAIN ApiKeysOrEmpty(partial) :
       p \in DOMAIN ApiKeysOrEmpty(after) /\ after.apiKeys[p] = before.apiKeys[p]

----------------------------------------------------------------------------
(* Who is notified *)
OnChannel(cb, type) ==
  \E i \in 1..Len(settingsEventHandlers[type]) : settingsEventHandlers[type][i] = cb
Invocations(cb) == { i \in 1..Len(calls) : calls[i].callback = cb }
Notifying == lastCall.op \in {"update", "reset"} /\ lastCall.ok

C17_SubscriberErrorsIsolated ==
  (Notifying /\ \E cb \in Throwers : OnChannel(cb, lastCall.channel))
    => /\ ~lastCall.raised
       /\ \A cb \in Callbacks : OnChannel(cb, lastCall.channel) => Invocations(cb) # {}

C17_Witness ==
  /\ Notifying /\ lastCall.op = "update" /\ lastCall.channel = "global"
  /\ settingsEventHandlers["global"] = <<"t", "f">>
  /\ ~lastCall.raised
  /\ Len(calls) = 2 /\ calls[1].callback = "t" /\ calls[2].callback = "f"

----------------------------------------------------------------------------
(* What a reset leaves stored *)
\* C18: after a successful reset of the global settings, whatever calls came
\* before, get() answers exactly the documented defaults, and every subscriber
\* that was notified received those defaults.
C18_ResetRestoresDefaults ==
  (lastCall.op = "reset" /\ lastCall.channel = "global" /\ lastCall.ok)
    => /\ getSettings(globalSettings, DEFAULT_GLOBAL_SETTINGS) = DocumentedDefaults
       /\ \A i \in 1..Len(calls) : calls[i].settings = DocumentedDefaults

----------------------------------------------------------------------------
(* Export and import of the three persisted documents (services/storage.js) *)
Placeholder == "[API_KEY]"
RedactedProviders == {"openai", "anthropic", "mistral"}

\* exportData without includeApiKeys: the apiKeys object it puts in the file
redactedApiKeys(apiKeys) ==
  [p \in RedactedProviders |->
     IF p \in DOMAIN apiKeys /\ apiKeys[p] # "" THEN Placeholder ELSE ""]

\* the object exportData serialises (exportDate left out)
exportData(globalDoc, chatDoc, convs, includeApiKeys) ==
  LET settings == getSettings(globalDoc, DocumentedDefaults)
  IN  [globalSettings |-> IF includeApiKeys THEN settings
                          ELSE Spread(settings,
                                 [apiKeys |-> redactedApiKeys(ApiKeysOrEmpty(settings))]),
       chatSettings |-> getSettings(chatDoc, DEFAULT_CHAT_SETTINGS),
       conversations |-> convs]

\* a file: whether JSON.parse accepts its text, and the object it then yields
File(wellFormed, data) == [wellFormed |-> wellFormed, data |-> data]
ExportedFiles ==
  { File(TRUE, exportData(g, [title |-> "i"], <<Entry(2, 1, <<>>)>>, inc)) :
      g \in {NoDoc, InstalledSettings, ConfiguredSettings}, inc \in BOOLEAN }
JsonFiles ==
  ExportedFiles \cup {File(FALSE, EmptyObj), File(TRUE, [invalidFormat |-> TRUE])}
ImportOptions == [overwrite : BOOLEAN, importApiKeys : BOOLEAN]
DocumentNames == {"globalSettings", "chatSettings", "conversations"}

\* !data.globalSettings || !data.chatSettings
ValidImport(data) == "globalSettings" \in DOMAIN data /\ "chatSettings" \in DOMAIN data

\* an import that knows only the three providers of the placeholder filter
importedKnownApiKeys(currentGlobalSettings, data, importApiKeys) ==
  LET current == ApiKeysOrEmpty(currentGlobalSettings)
      merged == Spread(current, ApiKeysOrEmpty(data.globalSettings))
  IN  IF importApiKeys
        THEN [p \in DOMAIN merged \cap RedactedProviders |->
                IF merged[p] = Placeholder
                  THEN IF p \in DOMAIN current THEN current[p] ELSE ""
                  ELSE merged[p]]
        ELSE current

\* importData: the apiKeys object it saves
importedApiKeys(currentGlobalSettings, data, importApiKeys) ==
  LET current == ApiKeysOrEmpty(currentGlobalSettings)
      merged == Spread(current, ApiKeysOrEmpty(data.globalSettings))
  IN  IF importApiKeys
        THEN [p \in DOMAIN merged |->
                IF p \in RedactedProviders /\ merged[p] = Placeholder
                  THEN IF p \in DOMAIN current THEN current[p] ELSE ""
                  ELSE merged[p]]
        ELSE current

mergedGlobalSettings(currentGlobalSettings, data, options) ==
  Spread(Spread(currentGlobalSettings, data.globalSettings),
         [apiKeys |-> importedApiKeys(currentGlobalSettings, data, options.importApiKeys)])

PersistedDocuments ==
  [globalSettings |-> globalSettings, chatSettings |-> persistedChatSettings,
   conversations |-> stored]

\* importData.  The three writes are started together; failing is the set of
\* documents whose write is refused.
ImportSettings(file, options, failing) ==
  LET data == file.data
      accepted == file.wellFormed /\ ValidImport(data)
      currentGlobalSettings ==
        IF options.overwrite THEN EmptyObj
        ELSE getSettings(globalSettings, DEFAULT_GLOBAL_SETTINGS)
      currentChatSettings ==
        IF options.overwrite THEN EmptyObj
        ELSE getSettings(persistedChatSettings, DEFAULT_CHAT_SETTINGS)
      written(name) == accepted /\ name \notin failing
  IN  /\ ~accepted => failing = {}
      /\ globalSettings' =
           IF written("globalSettings")
             THEN mergedSettings(mergedGlobalSettings(currentGlobalSettings, data, options),
                                 DEFAULT_GLOBAL_SETTINGS)
             ELSE globalSettings
      /\ persistedChatSettings' =
           IF written("chatSettings")
             THEN Spread(DEFAULT_CHAT_SETTINGS, Spread(currentChatSettings, data.chatSettings))
             ELSE persistedChatSettings
      /\ stored' =
           IF written("conversations")
             THEN mergedConversations(stored, data, options.overwrite)
             ELSE stored
      /\ lastCall' = Call("import", "none", [file |-> file, options |-> options],
                          PersistedDocuments, accepted /\ failing = {}, FALSE, NoDoc)
      /\ UNCHANGED <<sessionVars, trimVars, raceVars, messagingVars, maxHistoryItems, conversations,
                     currentConversationId, clock, fpMaxConversations, inserted, lastOp,
                     DEFAULT_GLOBAL_SETTINGS, settingsEventHandlers, unsubscribed, calls>>

InitImport ==
  /\ SessionIdle /\ TrimIdle /\ UpsertsIdle /\ UpdatesIdle /\ MessagingIdle
  /\ maxHistoryItems = DefaultMaxConversations /\ conversations = <<>>
  /\ currentConversationId = 0 /\ clock = 1
  /\ fpMaxConversations = DefaultMaxConversations
  /\ inserted = <<>> /\ lastOp = NoOp
  /\ globalSettings \in {NoDoc, InstalledSettings, ConfiguredSettings}
  /\ persistedChatSettings \in {NoDoc, [title |-> "t"]}
  /\ stored \in {<<>>, <<Entry(1, 1, <<>>)>>}
  /\ DEFAULT_GLOBAL_SETTINGS = DocumentedDefaults
  /\ settingsEventHandlers = NoHandlers
  /\ unsubscribed = {}
  /\ calls = <<>> /\ lastCall = NoCall

NextImport ==
  \E file \in JsonFiles, options \in ImportOptions, failing \in SUBSET DocumentNames :
    ImportSettings(file, options, failing)

SpecImport == InitImport /\ [][NextImport]_vars

ImportDone == lastCall.op = "import"
\* the export replaced the credentials of the file by the placeholder
RedactedFile(file) ==
  /\ file.wellFormed /\ ValidImport(file.data)
  /\ \A p \in DOMAIN ApiKeysOrEmpty(file.data.globalSettings) :
       file.data.globalSettings.apiKeys[p] \in {Placeholder, ""}
  /\ \E p \in DOMAIN ApiKeysOrEmpty(file.data.globalSettings) :
       file.data.globalSettings.apiKeys[p] = Placeholder

\* C19: after an import of a file whose credentials were redacted by the export,
\* under any options, every credential that was stored non-empty before the
\* import is stored with the same value.
C19_RedactedImportKeepsCredentials ==
  (ImportDone /\ lastCall.ok /\ RedactedFile(lastCall.arg.file)
     /\ lastCall.before.globalSettings # NoDoc)
    => \A p \in DOMAIN lastCall.before.globalSettings.apiKeys :
         lastCall.before.globalSettings.apiKeys[p] # ""
           => /\ p \in DOMAIN globalSettings.apiKeys
              /\ globalSettings.apiKeys[p] = lastCall.before.globalSettings.apiKeys[p]

\* C20: after a rejected import (text that does not parse, an object without
\* globalSettings or chatSettings, or a write that failed) the three persisted
\* documents are what they were before the import.
C20_RejectedImportWritesNothing ==
  (ImportDone /\ ~lastCall.ok) => PersistedDocuments = lastCall.before

----------------------------------------------------------------------------
(* Export followed by import *)
\* the same value for every field and credential once the defaults are filled in
EquivalentSettings(a, b) ==
  mergedSettings(a, DocumentedDefaults) = mergedSettings(b, DocumentedDefaults)

\* the settings exportData puts in a file when credentials are included
ExportedWithKeys(globalDoc) ==
  exportData(globalDoc, NoDoc, <<>>, TRUE).globalSettings

\* C21: when the file imported is the export, credentials included, of the stored
\* global settings, and credential import was requested, the settings stored
\* after the import are equivalent to the exported ones; this holds when the
\* store still holds the exported settings and, with overwrite, for any store.
C21_ExportImportRoundTrip ==
  (/\ ImportDone /\ lastCall.ok /\ lastCall.arg.options.importApiKeys
   /\ \E g \in {NoDoc, InstalledSettings, ConfiguredSettings} :
        /\ lastCall.arg.file.data.globalSettings = ExportedWithKeys(g)
        /\ lastCall.arg.options.overwrite \/ lastCall.before.globalSettings = g)
    => EquivalentSettings(getSettings(globalSettings, DEFAULT_GLOBAL_SETTINGS),
                          lastCall.arg.file.data.globalSettings)

C21_Witness ==
  /\ ImportDone /\ lastCall.ok /\ lastCall.arg.options.importApiKeys
  /\ ~lastCall.arg.options.overwrite
  /\ lastCall.before.globalSettings = ConfiguredSettings
  /\ lastCall.arg.file.data.globalSettings = ConfiguredSettings
  /\ globalSettings.apiKeys = ConfiguredSettings.apiKeys
  /\ globalSettings.theme = "dark"

----------------------------------------------------------------------------
(* Models no provider serves *)
\* C22: when the model resolves to no known provider, a send fails with
\* UnsupportedProvider and not with MissingCredential, whatever credentials are
\* stored, and no network call is made.
C22_UnknownProviderUnsupported ==
  (PathProvider = "unknown" /\ lastEvent \notin {"init", "rejected", "cleared", "sent"})
    => ~fetched /\ lastEvent = "UnsupportedProvider"

----------------------------------------------------------------------------
(* How a failed provider call is reported *)
\* C23: a provider answer with a non-success status is reported as a
\* ProviderError, its body parseable or not, and a transport failure as a
\* TransportError; neither is ever reported as the other.
C23_ErrorClassification ==
  JustSettled
    => /\ lastOutcome.kind = "http" => lastEvent = "ProviderError"
       /\ lastOutcome.kind = "transport" => lastEvent = "TransportError"

----------------------------------------------------------------------------
(* What the extraction answers for a success payload without the reply field *)
\* C24: when the Chat component has extracted the reply from a success payload
\* (an object, not null) that lacks the field the provider's format puts the
\* reply in, the extraction has not answered the empty string.
C24_AbsentReplyNotEmptyString ==
  (/\ JustSettled /\ ui = "chat" /\ lastOutcome.kind = "ok"
   /\ ~WellFormed(lastOutcome.body, getProviderFromModel(chatSettings.model)))
    => extractContentFromResponse(lastOutcome.body,
                                  getProviderFromModel(chatSettings.model)) # <<>>

----------------------------------------------------------------------------
(* Models routed to the aggregator *)
\* C25: with a model identifier that carries the prefix openrouter/ and a stored
\* openrouter credential, a send resolves the aggregator as its provider and
\* reaches the network call; it does not stop at the credential check or at the
\* provider dispatch.
C25_AggregatorReached ==
  (/\ StartsWith(ModelOrDefault(chatSettings.model), "openrouter/")
   /\ ApiKeyOf(globalSettings, "openrouter") # ""
   /\ lastEvent \notin {"init", "rejected", "cleared", "sent"})
    => /\ PathProvider = "openrouter"
       /\ fetched
       /\ lastEvent \notin {"MissingCredential", "UnsupportedProvider"}

----------------------------------------------------------------------------
(* The automatic title *)
\* C26: a successful exchange on a conversation whose title is still the default
\* sets the title to the truncated user message; a successful exchange on a
\* conversation with any other title leaves the title alone.
C26_TitleDerivedOnce ==
  [][\A o \in Outcomes :
       (Complete(o) /\ lastEvent' = "success")
         => chatSettings'.title = IF chatSettings.title = DefaultTitle
                                    THEN derivedTitle(userMessage)
                                    ELSE chatSettings.title]_vars

----------------------------------------------------------------------------
----------------------------------------------------------------------------
(* The full page with a request outstanding while the user changes conversation *)
\* what the messages container shows after a conversation was rendered
RenderedLast(msgs) ==
  LET shown == SelectSeq(msgs, NotSystem)
  IN  IF shown = <<>> THEN "empty" ELSE shown[Len(shown)].role

\* fullpage.js loadConversation.  The entries of the model carry no settings, so
\* the chat settings of the window are kept; a conversation is only loaded while
\* it is shorter than MaxMsgs.
LoadConversation(id) ==
  /\ ui = "fullpage"
  /\ IndexOfId(conversations, id) # 0
  /\ Len(conversations[IndexOfId(conversations, id)].messages) < MaxMsgs
  /\ currentConversationId' = id
  /\ conversation' = conversations[IndexOfId(conversations, id)].messages
  /\ lastRendered' = RenderedLast(conversation')
  /\ lastEvent' = "loaded"
  /\ saveTriggered' = FALSE
  /\ UNCHANGED <<ui, isProcessing, pc, userMessage, preSend, sentOn, sentTemperature, request,
                 outstanding, fetched, lastOutcome, chatSettings, globalSettings,
                 maxHistoryItems, stored, conversations, clock, fpMaxConversations,
                 inserted, lastOp, trimVars, raceVars, messagingVars, settingsVars>>

\* fullpage.js startNewConversation
StartNewConversation(id) ==
  /\ ui = "fullpage"
  /\ id \in FreshIds
  /\ currentConversationId' = id
  /\ conversation' = <<>>
  /\ chatSettings' = [model |-> DefaultModel, systemPrompt |-> <<"s">>,
                      title |-> DefaultTitle,
                    temperature |-> DefaultTemperature]
  /\ conversations' = fpNewLocal(conversations, id, fpMaxConversations, clock)
  /\ stored' = conversations'
  /\ lastRendered' = "empty"
  /\ lastEvent' = "started"
  /\ saveTriggered' = FALSE
  /\ UNCHANGED <<ui, isProcessing, pc, userMessage, preSend, sentOn, sentTemperature, request,
                 outstanding, fetched, lastOutcome, globalSettings, maxHistoryItems,
                 clock, fpMaxConversations, inserted, lastOp, trimVars, raceVars, messagingVars, settingsVars>>

InitSwitch ==
  /\ ui = "fullpage"
  /\ conversation = <<>> /\ isProcessing = FALSE /\ pc = "idle"
  /\ userMessage = <<>> /\ preSend = <<>> /\ sentOn = 0 /\ sentTemperature = <<>> /\ request = <<>>
  /\ outstanding = 0 /\ fetched = FALSE /\ saveTriggered = FALSE
  /\ lastRendered = "empty" /\ lastEvent = "init" /\ lastOutcome = NoOutcome
  /\ chatSettings = [model |-> <<"gpt", "-4">>, systemPrompt |-> <<"s">>,
                     title |-> DefaultTitle,
                    temperature |-> DefaultTemperature]
  /\ globalSettings = [apiKeys |-> AllKeys, saveConversations |-> TRUE,
                       maxConversations |-> DefaultMaxConversations, contextWindow |-> 0]
  /\ maxHistoryItems = DefaultMaxConversations
  /\ clock = 1
  /\ currentConversationId = 1
  /\ fpMaxConversations = globalSettings.maxConversations
  /\ inserted = <<>> /\ lastOp = NoOp
  /\ stored = <<Entry(1, 1, <<>>),
                Entry(2, 1, <<Msg("user", <<"b">>), Msg("assistant", Reply)>>)>>
  /\ conversations = stored
  /\ TrimIdle /\ UpsertsIdle /\ UpdatesIdle /\ MessagingIdle /\ SettingsIdle

\* one text, and a provider that answers well or not at all
SwitchOutcomes == {Outcome("ok", TRUE, Body(TRUE, <<Reply>>, FALSE, <<>>)),
                   Outcome("transport", FALSE, NoBody)}

NextSwitch ==
  \/ SendMessage(<<"a">>)
  \/ KeyCheck
  \/ \E o \in SwitchOutcomes : Complete(o)
  \/ \E id \in ConvIds : LoadConversation(id)
  \/ \E id \in ConvIds : StartNewConversation(id)

SpecSwitch == InitSwitch /\ [][NextSwitch]_vars

\* C28: when a reply has just been appended, the conversation that received it,
\* the current one, is the conversation on which the send was issued.
C28_ReplyLandsOnItsConversation ==
  lastEvent = "success" => currentConversationId = sentOn

----------------------------------------------------------------------------
(* Two upserts whose storage reads and writes interleave *)

SaveKinds == {"service", "background"}

\* services/storage.js saveConversation up to its first await, or
\* background.js saveConversation up to its storage get: the conversation is
\* stamped and the collection is read
UpsertRead(w, kind, id, now) ==
  /\ upserts.writer[w].pc = "idle"
  /\ upserts' = [upserts EXCEPT !.writer[w] =
                   [pc |-> "read", kind |-> kind,
                    conv |-> Entry(id, now, <<>>), read |-> stored]]
  /\ clock' = now
  /\ UNCHANGED <<stored, globalSettings, maxHistoryItems, conversations, inserted, lastOp,
                 currentConversationId, fpMaxConversations, sessionVars, trimVars,
                 settingsVars, updates, messagingVars>>

\* a writer that merges its conversation into the collection stored now
writtenOnCurrent(u) ==
  IF u.kind = "service"
    THEN saveConversation(stored, u.conv, globalSettings, u.conv.timestamp)
    ELSE bgSaveConversation(stored, u.conv, maxHistoryItems, u.conv.timestamp)

\* the collection a writer hands to chrome.storage.sync.set: computed from
\* the collection it read
written(u) ==
  IF u.kind = "service"
    THEN saveConversation(u.read, u.conv, globalSettings, u.conv.timestamp)
    ELSE bgSaveConversation(u.read, u.conv, maxHistoryItems, u.conv.timestamp)

\* the rest of either saveConversation: chrome.storage.sync.set
UpsertWrite(w, now) ==
  /\ upserts.writer[w].pc = "read"
  /\ stored' = written(upserts.writer[w])
  /\ upserts' = [upserts EXCEPT !.writer[w].pc = "done",
                                !.landed = Append(@, w)]
  /\ lastOp' = Op("write", upserts.writer[w].conv.id)
  /\ clock' = now
  /\ UNCHANGED <<globalSettings, maxHistoryItems, conversations, inserted,
                 currentConversationId, fpMaxConversations, sessionVars, trimVars,
                 settingsVars, updates, messagingVars>>

InitRace ==
  /\ SessionIdle /\ TrimIdle /\ UpsertsIdle /\ UpdatesIdle /\ MessagingIdle /\ SettingsIdle
  /\ globalSettings \in [apiKeys : {AllKeys}, saveConversations : {TRUE},
                         maxConversations : CapChoices, contextWindow : {0}]
  /\ maxHistoryItems = DefaultMaxConversations
  /\ stored \in {<<>>, <<Entry(MaxIds, 1, <<>>)>>}
  /\ conversations = <<>>
  /\ currentConversationId = 0 /\ clock = 1
  /\ fpMaxConversations = DefaultMaxConversations
  /\ inserted = <<>> /\ lastOp = NoOp

NextRace ==
  \/ \E w \in Writers, kind \in SaveKinds, id \in ConvIds, now \in Later :
       UpsertRead(w, kind, id, now)
  \/ \E w \in Writers, now \in Later : UpsertWrite(w, now)

SpecRace == InitRace /\ [][NextRace]_vars

BothLanded == Len(upserts.landed) = Cardinality(Writers)
LastLanded == upserts.writer[upserts.landed[Len(upserts.landed)]]
FirstLanded == upserts.writer[upserts.landed[1]]

\* C29: when two upserts interleave their read and write steps, the
\* collection stored after both have completed is exactly the one the write
\* that landed last computed from its own earlier read; nothing of the other
\* writer's work is merged in.
C29_LastWriteWins ==
  BothLanded
    => stored = IF LastLanded.kind = "service"
                  THEN saveConversation(LastLanded.read, LastLanded.conv, globalSettings,
                                        LastLanded.conv.timestamp)
                  ELSE bgSaveConversation(LastLanded.read, LastLanded.conv, maxHistoryItems,
                                          LastLanded.conv.timestamp)

\* both read before either wrote, and the first writer's conversation is
\* gone although the collection had room for it
C29_Witness ==
  /\ BothLanded
  /\ FirstLanded.read = LastLanded.read
  /\ FirstLanded.conv.id # LastLanded.conv.id
  /\ FirstLanded.conv.id \notin Ids(stored)
  /\ Len(stored) < MaxConversationsOf(globalSettings)
  /\ Len(stored) < MaxHistoryOf(maxHistoryItems)

----------------------------------------------------------------------------
(* A session opened on a stored conversation: sends, outcomes and clears *)

\* Chat.init with a conversationId: the messages are those of the stored
\* conversation, which may begin with a system message
InitShaped ==
  /\ ui \in {"chat", "fullpage"}
  /\ conversation \in { h \in ShapedHistories : Len(h) < MaxMsgs }
  /\ isProcessing = FALSE /\ pc = "idle"
  /\ userMessage = <<>> /\ preSend = <<>> /\ sentOn = 0 /\ sentTemperature = <<>> /\ request = <<>>
  /\ outstanding = 0 /\ fetched = FALSE /\ saveTriggered = FALSE
  /\ lastRendered = IF SelectSeq(conversation, NotSystem) = <<>> THEN "empty" ELSE "history"
  /\ lastEvent = "init" /\ lastOutcome = NoOutcome
  /\ chatSettings \in [model : {DefaultModel}, systemPrompt : {<<>>, <<"s">>},
                       title : {DefaultTitle},
                       temperature : {DefaultTemperature}]
  /\ globalSettings \in [apiKeys : {AllKeys}, saveConversations : {TRUE},
                         maxConversations : {MaxCap}, contextWindow : {0}]
  /\ maxHistoryItems = DefaultMaxConversations
  /\ clock = 1
  /\ currentConversationId = 1
  /\ fpMaxConversations = globalSettings.maxConversations
  /\ inserted = <<>> /\ lastOp = NoOp
  /\ stored = <<Entry(1, 1, conversation)>>
  /\ conversations = stored
  /\ TrimIdle /\ UpsertsIdle /\ UpdatesIdle /\ MessagingIdle /\ SettingsIdle

SpecShaped == InitShaped /\ [][Next]_vars

\* C30: in every state of a session that starts from a conversation with at
\* most one system message, in first place, and runs any sequence of sends,
\* successes, failures and chat clears, the conversation still holds at most
\* one system message and only as its first element.
C30_OneLeadingSystemMessage == ConversationShaped(conversation)

\* a reply has been appended behind a system message and two other messages
C30_Witness ==
  /\ lastEvent = "success" /\ HasSystem(conversation) /\ Len(conversation) > MaxMsgs

----------------------------------------------------------------------------
(* background.js: the chrome.runtime.onMessage dispatcher *)

MaxDelivered == 2   \* messages delivered to a listener per behaviour

\* what a listener was given, what it returned and the sendResponse calls
Delivery(l, a, d, p, r, o, rs) ==
  [listener |-> l, action |-> a, data |-> d, pc |-> p, returned |-> r,
   result |-> o, responses |-> rs]

\* {success: true, data}, {success: true} or {success: false, error}
Response(success, carries) == [success |-> success, carries |-> carries]

BgActions == {"getLLMResponse", "saveConversation", "openFullPage", "other"}
Answerable == {"getLLMResponse", "saveConversation"}

\* message.data of each action
BgData(a) ==
  IF a = "getLLMResponse" THEN [model : Models]
  ELSE IF a = "saveConversation" THEN { Entry(id, clock, <<>>) : id \in ConvIds }
  ELSE { NoDoc }

\* the listener body: the switch on message.action
BgOnMessage(a, d) ==
  /\ Len(delivered) < MaxDelivered
  /\ delivered' = Append(delivered,
       IF a \in Answerable
         THEN Delivery("background", a, d, "pending", "true", "none", <<>>)
       ELSE IF a = "openFullPage"
         THEN Delivery("background", a, d, "done", "false", "ok",
                       <<Response(TRUE, "nothing")>>)
       ELSE Delivery("background", a, d, "done", "undefined", "none", <<>>))
  /\ UNCHANGED <<sessionVars, storeVars, trimVars, settingsVars, raceVars>>

\* background.js fetchLLMResponse: whether the promise it returns is
\* fulfilled, for the way the provider call settles
fetchLLMResponse(data, gs, o) ==
  LET provider == bgGetProviderFromModel(data.model)
  IN  IF ApiKeyOf(gs, provider) = "" THEN "failed"
      ELSE IF provider \notin {"openai", "anthropic", "mistral"} THEN "failed"
      ELSE IF o.kind = "ok" THEN "ok"
      ELSE "failed"

\* a dispatcher whose promise chains have no catch
BgSettleNoCatch(i, o, readOk, writeOk) ==
  LET m == delivered[i]
      result == IF m.action = "getLLMResponse"
                  THEN fetchLLMResponse(m.data, globalSettings, o)
                  ELSE IF readOk /\ writeOk THEN "ok" ELSE "failed"
  IN  /\ m.listener = "background" /\ m.pc = "pending"
      /\ delivered' = [delivered EXCEPT ![i] =
           [@ EXCEPT !.pc = "done", !.result = result,
                     !.responses = IF result = "ok"
                                     THEN <<Response(TRUE, IF m.action = "getLLMResponse"
                                                          THEN "data" ELSE "nothing")>>
                                     ELSE <<>>]]
      /\ stored' = IF m.action = "saveConversation" /\ result = "ok"
                     THEN bgSaveConversation(stored, m.data, maxHistoryItems, clock)
                     ELSE stored
      /\ UNCHANGED <<sessionVars, maxHistoryItems, conversations, storeRest, trimVars,
                     settingsVars, raceVars>>

\* the promise of fetchLLMResponse or saveConversation settles: then or catch
\* calls sendResponse.  readOk and writeOk say whether the storage calls of
\* saveConversation succeed.
BgSettle(i, o, readOk, writeOk) ==
  LET m == delivered[i]
      result == IF m.action = "getLLMResponse"
                  THEN fetchLLMResponse(m.data, globalSettings, o)
                  ELSE IF readOk /\ writeOk THEN "ok" ELSE "failed"
  IN  /\ m.listener = "background" /\ m.pc = "pending"
      /\ delivered' = [delivered EXCEPT ![i] =
           [@ EXCEPT !.pc = "done", !.result = result,
                     !.responses = Append(@,
                        IF result = "ok"
                          THEN Response(TRUE, IF m.action = "getLLMResponse"
                                                THEN "data" ELSE "nothing")
                          ELSE Response(FALSE, "error"))]]
      /\ stored' = IF m.action = "saveConversation" /\ result = "ok"
                     THEN bgSaveConversation(stored, m.data, maxHistoryItems, clock)
                     ELSE stored
      /\ UNCHANGED <<sessionVars, maxHistoryItems, conversations, storeRest, trimVars,
                     settingsVars, raceVars>>

InitDispatch ==
  /\ SessionIdle /\ TrimIdle /\ UpsertsIdle /\ UpdatesIdle /\ MessagingIdle /\ SettingsIdle
  /\ globalSettings \in [apiKeys : {NoKeys, AllKeys}, saveConversations : {TRUE},
                         maxConversations : {0}, contextWindow : {0}]
  /\ maxHistoryItems \in CapChoices
  /\ stored = <<>> /\ conversations = <<>>
  /\ currentConversationId = 0 /\ clock = 1
  /\ fpMaxConversations = DefaultMaxConversations
  /\ inserted = <<>> /\ lastOp = NoOp

Settles ==
  \E i \in 1..Len(delivered), o \in Outcomes, readOk \in BOOLEAN, writeOk \in BOOLEAN :
    BgSettle(i, o, readOk, writeOk)

NextDispatch ==
  \/ \E a \in BgActions : \E d \in BgData(a) : BgOnMessage(a, d)
  \/ Settles

\* a promise chain that is pending is run: fetch() and the storage calls settle
SpecDispatch == InitDispatch /\ [][NextDispatch]_vars /\ WF_vars(Settles)

IsRequest(i) ==
  /\ i <= Len(delivered)
  /\ delivered[i].listener = "background" /\ delivered[i].action \in Answerable

AnsweredOnce(i) ==
  LET m == delivered[i]
  IN  /\ Len(m.responses) = 1
      /\ m.responses[1].success = (m.result = "ok")
      /\ m.responses[1].carries = IF m.result # "ok" THEN "error"
                                  ELSE IF m.action = "getLLMResponse" THEN "data"
                                  ELSE "nothing"

\* C31: every request sent to the background dispatcher for a model response
\* or for saving a conversation is answered exactly once, with success true
\* (plus data) when the operation succeeded and success false (plus error)
\* when it failed in any way, and no such request is left unanswered.
C31_AnsweredExactlyOnce ==
  /\ [](\A i \in 1..MaxDelivered :
          IsRequest(i) => /\ Len(delivered[i].responses) <= 1
                          /\ delivered[i].pc = "done" => AnsweredOnce(i))
  /\ \A i \in 1..MaxDelivered : IsRequest(i) ~> (IsRequest(i) /\ AnsweredOnce(i))

\* a model request that failed and a save that succeeded, both answered
C31_Witness ==
  \E i, j \in 1..Len(delivered) :
    /\ IsRequest(i) /\ delivered[i].action = "getLLMResponse"
    /\ delivered[i].result = "failed" /\ AnsweredOnce(i)
    /\ IsRequest(j) /\ delivered[j].action = "saveConversation"
    /\ delivered[j].result = "ok" /\ AnsweredOnce(j) /\ stored # <<>>

----------------------------------------------------------------------------
(* utils/messaging.js: setupMessageListener *)

\* the handlers object given to setupMessageListener: what each handler does
\* when called
Handlers == [action1 |-> "returns", asyncAction |-> "resolves", asyncError |-> "rejects",
             syncError |-> "throws", asyncNull |-> "rejectsNull"]

\* property names every object literal inherits from Object.prototype
Inherited == {"toString"}

MessageActions == DOMAIN Handlers \cup Inherited \cup {"unknown"}

\* handlers[action]: what the looked-up value does when called, "none" when
\* the lookup is undefined
HandlerOf(a) ==
  IF a \in DOMAIN Handlers THEN Handlers[a]
  ELSE IF a \in Inherited THEN "returns"
  ELSE "none"

\* the listener function, up to its return
ListenerOnMessage(a) ==
  /\ Len(delivered) < MaxDelivered
  /\ delivered' = Append(delivered,
       CASE HandlerOf(a) = "none" ->
              Delivery("utility", a, NoDoc, "done", "false", "none", <<>>)
         [] HandlerOf(a) = "returns" ->
              Delivery("utility", a, NoDoc, "done", "false", "ok",
                       <<Response(TRUE, "result")>>)
         [] HandlerOf(a) = "throws" ->
              Delivery("utility", a, NoDoc, "done", "threw", "failed", <<>>)
         [] OTHER ->
              Delivery("utility", a, NoDoc, "pending", "true", "none", <<>>))
  /\ UNCHANGED <<sessionVars, storeVars, trimVars, settingsVars, raceVars>>

\* result.then(sendResponse).catch(...): the handler's promise settles
ListenerSettle(i) ==
  LET m == delivered[i]
  IN  /\ m.listener = "utility" /\ m.pc = "pending"
      /\ delivered' = [delivered EXCEPT ![i] =
           CASE HandlerOf(m.action) = "resolves" ->
                  [@ EXCEPT !.pc = "done", !.result = "ok",
                            !.responses = Append(@, Response(TRUE, "result"))]
             [] HandlerOf(m.action) = "rejects" ->
                  [@ EXCEPT !.pc = "done", !.result = "failed",
                            !.responses = Append(@, Response(FALSE, "error"))]
             [] OTHER ->   \* error.message of null throws inside the catch
                  [@ EXCEPT !.pc = "done", !.result = "failed"]]
      /\ UNCHANGED <<sessionVars, storeVars, trimVars, settingsVars, raceVars>>

InitListener == InitDispatch

NextListener ==
  \/ \E a \in MessageActions : ListenerOnMessage(a)
  \/ \E i \in 1..Len(delivered) : ListenerSettle(i)

SpecListener == InitListener /\ [][NextListener]_vars

\* C32: every message whose action has a registered handler gets exactly one
\* sendResponse call, with the handler's result or with {error: message} when
\* an asynchronous handler rejects, and the listener returns true exactly when
\* the handler returned a promise; for a message with no registered handler
\* sendResponse is never called and the listener returns false.
C32_ListenerAnswers ==
  \A i \in 1..Len(delivered) :
    LET m == delivered[i]
        async == HandlerOf(m.action) \in {"resolves", "rejects", "rejectsNull"}
    IN  m.listener = "utility"
          => IF m.action \in DOMAIN Handlers
               THEN /\ Len(m.responses) <= 1
                    /\ m.returned = IF async THEN "true" ELSE "false"
                    /\ m.pc = "done"
                         => /\ Len(m.responses) = 1
                            /\ m.responses[1] = IF m.result = "ok"
                                                  THEN Response(TRUE, "result")
                                                  ELSE Response(FALSE, "error")
               ELSE m.responses = <<>> /\ m.returned = "false"

----------------------------------------------------------------------------
(* Upserts whose read of the collection may fail *)

\* services/storage.js getConversations: [] when chrome.storage.sync.get rejects
getConversations(readOk) == IF readOk THEN stored ELSE <<>>

\* services/storage.js saveConversation with a read that succeeds or fails
StoreUpsertReading(id, now, readOk) ==
  LET conv == Entry(id, now, <<>>)
      read == getConversations(readOk)
  IN  /\ stored' = saveConversation(read, conv, globalSettings, now)
      /\ inserted' = IF id \in Ids(stored) THEN inserted ELSE Append(inserted, conv)
      /\ lastOp' = Op(IF ~readOk THEN "upsertUnread"
                      ELSE IF id \in Ids(stored) THEN "update" ELSE "insert", id)
      /\ clock' = now
      /\ UNCHANGED <<globalSettings, maxHistoryItems, conversations,
                     currentConversationId, fpMaxConversations, sessionVars, trimVars,
                     raceVars, messagingVars, settingsVars>>

NextFault ==
  \E id \in ConvIds, now \in Later, readOk \in BOOLEAN : StoreUpsertReading(id, now, readOk)

SpecFault == InitStore /\ [][NextFault]_vars

\* C33: if reading the persisted collection fails during an upsert, the
\* upsert does not replace the collection with one that omits conversations
\* that were stored before it (checked where the cap leaves room for them).
C33_FailedReadKeepsStored ==
  [][\A id \in ConvIds :
       ((\E now \in Later : StoreUpsertReading(id, now, FALSE))
          /\ Len(stored) < MaxConversationsOf(globalSettings))
         => Ids(stored) \subseteq Ids(stored')]_vars

----------------------------------------------------------------------------
(* The full page writing its local copy of the collection *)

\* C34: a conversation that another context has persisted is not removed or
\* rolled back to an older version when a full-page session saves a different
\* conversation or creates a new one (a new one may push out the oldest when
\* the collection is at its cap).
C34_OtherContextsKept ==
  [][\A now \in Later :
       /\ currentConversationId # 0      \* the page has been opened
       /\ \/ /\ FpSaveChatSettings(now)
             /\ \E i \in 1..Len(stored) :
                  /\ stored[i].id # currentConversationId
                  /\ \A j \in 1..Len(stored') : stored'[j] # stored[i]
          \/ /\ \E id \in ConvIds : FpStartNewConversation(id, now)
             /\ Len(stored) < MaxConversationsOf(globalSettings)
             /\ \E i \in 1..Len(stored) : \A j \in 1..Len(stored') : stored'[j] # stored[i]
       => FALSE]_vars

----------------------------------------------------------------------------
(* Two settings updates whose storage reads and writes interleave *)

UpdateKinds == {"update", "set"}

\* the credential each writer changes
ChangeOf(w) ==
  IF w = "w1" THEN [provider |-> "openai", value |-> "a"]
  ELSE [provider |-> "anthropic", value |-> "x"]

\* updateGlobalSettings / setGlobalSetting up to their save: the settings are
\* read and the new object is built.  setGlobalSetting assigns into the object
\* it was given, which is DEFAULT_GLOBAL_SETTINGS when nothing is stored.
SettingsRead(w, kind) ==
  LET c == ChangeOf(w)
      current == getSettings(globalSettings, DEFAULT_GLOBAL_SETTINGS)
      built == IF kind = "update"
                 THEN updatedSettings(current, [apiKeys |-> [p \in {c.provider} |-> c.value]])
                 ELSE SetPath(current, <<"apiKeys", c.provider>>, c.value)
      shared == kind = "set" /\ globalSettings = NoDoc
  IN  /\ updates.writer[w].pc = "idle"
      /\ updates' = [updates EXCEPT !.writer[w] =
                       [pc |-> IF shared THEN "readShared" ELSE "read",
                        change |-> <<c>>, read |-> <<built>>]]
      /\ DEFAULT_GLOBAL_SETTINGS' = IF shared THEN built ELSE DEFAULT_GLOBAL_SETTINGS
      /\ UNCHANGED <<sessionVars, storeVars, trimVars, upserts, messagingVars,
                     persistedChatSettings, settingsEventHandlers, unsubscribed,
                     calls, lastCall>>

\* the rest of either function: saveGlobalSettings, which may be refused, and
\* the notification
SettingsWrite(w, writeOk) ==
  LET u == updates.writer[w]
      settings == IF u.pc = "readShared" THEN DEFAULT_GLOBAL_SETTINGS ELSE u.read[1]
      n == notifySettingsChanged("global", settings)
  IN  /\ u.pc \in {"read", "readShared"}
      /\ globalSettings' = IF writeOk
                             THEN mergedSettings(settings, DEFAULT_GLOBAL_SETTINGS)
                             ELSE globalSettings
      /\ updates' = [updates EXCEPT !.writer[w].pc = IF writeOk THEN "done" ELSE "failed",
                                    !.landed = IF writeOk THEN Append(@, w) ELSE @]
      /\ calls' = IF writeOk THEN n.invoked ELSE <<>>
      /\ lastCall' = Call("update", "global", u.change[1], NoDoc, writeOk,
                          writeOk /\ n.raised, IF writeOk THEN settings ELSE NoDoc)
      /\ UNCHANGED <<sessionVars, storeButSettings, trimVars, upserts, messagingVars,
                     DEFAULT_GLOBAL_SETTINGS, persistedChatSettings,
                     settingsEventHandlers, unsubscribed>>

InitSettingsRace == InitSettings

NextSettingsRace ==
  \/ \E w \in Writers, kind \in UpdateKinds : SettingsRead(w, kind)
  \/ \E w \in Writers, writeOk \in BOOLEAN : SettingsWrite(w, writeOk)

SpecSettingsRace == InitSettingsRace /\ [][NextSettingsRace]_vars

\* C35: when two settings updates that change different fields (the
\* credentials of two providers) overlap, each reading the stored settings
\* before the other has written, both changes are in the stored settings once
\* both updates have completed.
C35_BothChangesStored ==
  Len(updates.landed) = Cardinality(Writers)
    => \A w \in Writers :
         ApiKeyOf(globalSettings, ChangeOf(w).provider) = ChangeOf(w).value

----------------------------------------------------------------------------
(* The in-flight guard *)

\* C36: every send that enters Awaiting Response leaves it as soon as its
\* provider call resolves or rejects, on every path including exceptions
\* raised while the reply is processed: the in-flight guard is set exactly
\* while the call of a send is outstanding.
C36_GuardCleared ==
  /\ isProcessing <=> pc # "idle"
  /\ isProcessing <=> outstanding = 1
  /\ JustSettled => ~isProcessing /\ SessionState # "Awaiting Response"

\* the reply of the provider could not be processed and the guard is clear
C36_Witness ==
  /\ lastEvent = "ProcessingError" /\ lastOutcome.kind = "ok" /\ ~isProcessing

----------------------------------------------------------------------------
(* The temperature of the request *)

\* the temperatures a conversation is configured with: 0, 0.3, 0.7 and 1
Temperatures == {0, 3, DefaultTemperature, 10}

InitTemperature ==
  /\ ui \in {"chat", "fullpage"}
  /\ conversation = <<>> /\ isProcessing = FALSE /\ pc = "idle"
  /\ userMessage = <<>> /\ preSend = <<>> /\ sentOn = 0 /\ sentTemperature = <<>>
  /\ request = <<>>
  /\ outstanding = 0 /\ fetched = FALSE /\ saveTriggered = FALSE
  /\ lastRendered = "empty" /\ lastEvent = "init" /\ lastOutcome = NoOutcome
  /\ chatSettings \in [model : {<<"gpt", "-4">>}, systemPrompt : {<<>>},
                       title : {DefaultTitle}, temperature : Temperatures]
  /\ globalSettings \in [apiKeys : {AllKeys}, saveConversations : {TRUE},
                         maxConversations : {MaxCap}, contextWindow : {0}]
  /\ maxHistoryItems = DefaultMaxConversations
  /\ clock = 1
  /\ currentConversationId = 1
  /\ fpMaxConversations = globalSettings.maxConversations
  /\ inserted = <<>> /\ lastOp = NoOp
  /\ stored = <<Entry(1, 1, conversation)>>
  /\ conversations = stored
  /\ TrimIdle /\ UpsertsIdle /\ UpdatesIdle /\ MessagingIdle /\ SettingsIdle

SpecTemperature == InitTemperature /\ [][Next]_vars

\* C37: for every configured temperature in [0,1], 0 included, the temperature
\* field of the request transmitted to the provider equals the temperature
\* configured in the conversation's chat parameters.
C37_TemperatureTransmitted ==
  (fetched /\ sentTemperature # <<>>) => sentTemperature[1] = chatSettings.temperature

----------------------------------------------------------------------------
(* Replies and the message they answer *)

\* C38: in every reachable state of a session, every assistant message of the
\* conversation is immediately preceded by a user message, under every
\* interleaving of send, provider completion and clearChat, a clear performed
\* while a request is outstanding included.
C38_ReplyFollowsUserMessage ==
  \A i \in 1..Len(conversation) :
    conversation[i].role = "assistant"
      => i > 1 /\ conversation[i - 1].role = "user"

====
